---- MODULE Spec2Model ----
(***************************************************************************)
(* Model of the EXFOR proton-reaction text parser and serializer:          *)
(*   read_experiment            (EXFOR_ProtonReactions_UtilityFunctions)   *)
(*   write_experiments_to_txt   (EXFOR_ProtonReactions_UtilityFunctions)   *)
(*   read_experiments_from_txt  (EXFOR_ProtonReactions_UtilityFunctions)   *)
(*   filter_experiments, get_unique_values, classify_experiments           *)
(*                              (EXFOR_ProtonReactions_UtilityFunctions)   *)
(*   read_proton_experiments_from_exfortables                              *)
(*                              (EXFOR_ProtonReactions_UtilityFunctions)   *)
(*   Experiment and its methods (EXFOR_ProtonReactions_Experiment_Class)   *)
(*                                                                         *)
(* Python strings are TLA+ strings; Len, SubSeq and \o act on them         *)
(* character by character.  Python values are tagged records: t is the     *)
(* type ("none", "str", "int", "float"), s the text of a str, m and e the  *)
(* number m / 10^e.                                                        *)
(* Numeric literals of the model are unsigned decimals ("12", "1.5") and   *)
(* "NaN"/"nan"; signs, exponents and underscores do not occur in the       *)
(* inputs the model enumerates.                                            *)
(***************************************************************************)
EXTENDS Integers, Sequences, FiniteSets, TLC

VARIABLES
    pc,             \* control position of the running operation
    status,         \* "running", "returned" or "raised"
    filename,       \* read_experiment: the path argument
    lines,          \* read_experiment: f.readlines()
    idx,            \* read_experiment: index of the line the for loop is at
    experiment,     \* the Experiment under construction
    read_header,    \* read_experiment: flag
    read_ref,       \* read_experiment: flag
    temp_line,      \* read_experiment: reference accumulator
    bound,          \* read_experiment: header and data_list have been assigned
    header,         \* read_experiment: column names
    data_list,      \* read_experiment: one list per column name
    branch,         \* read_experiment: branch of the loop body taken by each line
    experiments,    \* write_experiments_to_txt: the collection argument
    wi,             \* write_experiments_to_txt: index of the record being written
    txt,            \* contents of the text file
    rpos,           \* read_experiments_from_txt: offset of the next unread character
    line,           \* read_experiments_from_txt: the current line
    loaded,         \* read_experiments_from_txt: the experiments list being built
    handle,         \* the file object f of the running operation: "open" or "closed"
    attribute,      \* collection operations: the attribute argument
    value,          \* filter_experiments: the value argument
    ret,            \* collection operations: what the call returned
    filtered_list,  \* filter_experiments: the list built at line 591
    unique_values,  \* get_unique_values, classify_experiments: the unique values
    dfs,            \* classify_experiments: one table per unique value
    printed,        \* collection operations: what the call printed
    csv,            \* classify_experiments: the files written by to_csv
    calls,          \* Experiment methods: number of calls made on the object
    table,          \* Experiment methods: the DataFrame the call returned
    files,          \* read_proton_experiments_from_exfortables: the files in walk order
    fi              \* read_proton_experiments_from_exfortables: files opened so far

vars == <<pc, status, filename, lines, idx, experiment, read_header, read_ref,
          temp_line, bound, header, data_list, branch,
          experiments, wi, txt, rpos, line, loaded, handle,
          attribute, value, ret, filtered_list, unique_values, dfs, printed,
          csv, calls, table, files, fi>>

readVars == <<filename, lines, idx, experiment, read_header, read_ref,
              temp_line, bound, header, data_list, branch>>

txtVars == <<experiments, wi, txt, rpos, line, loaded>>

collVars == <<attribute, value, ret, filtered_list, unique_values, dfs,
              printed, csv>>

walkVars == <<files, fi>>

opVars == <<collVars, calls, table, walkVars>>

-----------------------------------------------------------------------------
(* Bounds of the enumerated inputs *)

MaxFreeLines == 2
MaxRows == 2
MaxRefLines == 2
MaxExperiments == 2
MaxCollection == 2
MaxCalls == 2

-----------------------------------------------------------------------------
(* Python values *)

None == [t |-> "none", s |-> "", m |-> 0, e |-> 0]
PyStr(x) == [t |-> "str", s |-> x, m |-> 0, e |-> 0]
PyInt(n) == [t |-> "int", s |-> "", m |-> n, e |-> 0]
NaN == [t |-> "float", s |-> "nan", m |-> 0, e |-> 0]

RECURSIVE PyFloat(_, _)
\* the float m / 10^e, in lowest decimal terms
PyFloat(m, e) ==
    IF e > 0 /\ m % 10 = 0 THEN PyFloat(m \div 10, e - 1)
    ELSE [t |-> "float", s |-> "", m |-> m, e |-> e]

IsNone(v) == v.t = "none"
IsStr(v) == v.t = "str"
IsNaN(v) == v.t = "float" /\ v.s = "nan"
IsNumber(v) == v.t \in {"int", "float"}

\* Python ==  between two values (an int equals the float of the same value,
\* NaN equals nothing, a string never equals a number)
PyEq(a, b) ==
    IF IsNumber(a) /\ IsNumber(b)
    THEN ~IsNaN(a) /\ ~IsNaN(b) /\ a.m = b.m /\ a.e = b.e
    ELSE a = b

-----------------------------------------------------------------------------
(* str methods *)

Ch(s, i) == SubSeq(s, i, i)
From(s, i) == SubSeq(s, i, Len(s))

StartsWith(s, p) == Len(s) >= Len(p) /\ SubSeq(s, 1, Len(p)) = p

IsSpace(c) == c \in {" ", "\n", "\t", "\r"}
IsDigit(c) == c \in {"0", "1", "2", "3", "4", "5", "6", "7", "8", "9"}

DigitVal(c) ==
    CASE c = "0" -> 0 [] c = "1" -> 1 [] c = "2" -> 2 [] c = "3" -> 3
      [] c = "4" -> 4 [] c = "5" -> 5 [] c = "6" -> 6 [] c = "7" -> 7
      [] c = "8" -> 8 [] c = "9" -> 9

\* index of the first whitespace character of s, Len(s)+1 if none
FirstSpace(s) ==
    IF \E i \in 1..Len(s) : IsSpace(Ch(s, i))
    THEN CHOOSE i \in 1..Len(s) :
            IsSpace(Ch(s, i)) /\ \A j \in 1..(i - 1) : ~IsSpace(Ch(s, j))
    ELSE Len(s) + 1

\* s.find(c) + 1: index of the first occurrence of character c, 0 if none
Find(s, c) ==
    IF \E i \in 1..Len(s) : Ch(s, i) = c
    THEN CHOOSE i \in 1..Len(s) :
            Ch(s, i) = c /\ \A j \in 1..(i - 1) : Ch(s, j) # c
    ELSE 0

\* index of the last occurrence of character c, 0 if none
RFind(s, c) ==
    IF \E i \in 1..Len(s) : Ch(s, i) = c
    THEN CHOOSE i \in 1..Len(s) :
            Ch(s, i) = c /\ \A j \in (i + 1)..Len(s) : Ch(s, j) # c
    ELSE 0

RECURSIVE LStrip(_)
LStrip(s) ==
    IF s # "" /\ IsSpace(Ch(s, 1)) THEN LStrip(From(s, 2)) ELSE s

RECURSIVE RStrip(_)
RStrip(s) ==
    IF s # "" /\ IsSpace(Ch(s, Len(s))) THEN RStrip(SubSeq(s, 1, Len(s) - 1)) ELSE s

\* s.strip()
Strip(s) == RStrip(LStrip(s))

RECURSIVE Split(_)
\* s.split(): the whitespace-separated tokens of s
Split(s) ==
    LET t == LStrip(s)
        k == FirstSpace(t)
    IN  IF t = "" THEN <<>>
        ELSE <<SubSeq(t, 1, k - 1)>> \o Split(From(t, k))

\* the line contains a colon, so that line.split(':')[1] exists
HasColon(s) == Find(s, ":") # 0

\* line.split(':')[1]: the text between the first and the second colon
SplitColon1(s) ==
    LET rest == From(s, Find(s, ":") + 1)
        c2 == Find(rest, ":")
    IN  IF c2 = 0 THEN rest ELSE SubSeq(rest, 1, c2 - 1)

\* q[0:] in place of q[1:]: the first element is kept
DropFirstKeepsAll(q) == q

\* q[1:] of a list
DropFirst(q) == IF q = <<>> THEN <<>> ELSE Tail(q)

\* s[:-n]
DropLast(s, n) == SubSeq(s, 1, Len(s) - n)

AllDigits(s) == \A i \in 1..Len(s) : IsDigit(Ch(s, i))

RECURSIVE DigitsVal(_)
DigitsVal(s) ==
    IF s = "" THEN 0
    ELSE DigitsVal(DropLast(s, 1)) * 10 + DigitVal(Ch(s, Len(s)))

\* int(s) succeeds
IntOk(s) == LET t == Strip(s) IN t # "" /\ AllDigits(t)
\* int(s)
IntOf(s) == PyInt(DigitsVal(Strip(s)))

\* float(s) succeeds
FloatOk(s) ==
    LET t == Strip(s)
        d == Find(t, ".")
    IN  \/ t \in {"nan", "NaN"}
        \/ /\ d = 0
           /\ t # ""
           /\ AllDigits(t)
        \/ /\ d # 0
           /\ AllDigits(SubSeq(t, 1, d - 1))
           /\ AllDigits(From(t, d + 1))
           /\ Len(t) > 1

\* float(s)
FloatOf(s) ==
    LET t == Strip(s)
        d == Find(t, ".")
    IN  IF t \in {"nan", "NaN"} THEN NaN
        ELSE IF d = 0 THEN PyFloat(DigitsVal(t), 0)
        ELSE PyFloat(DigitsVal(SubSeq(t, 1, d - 1) \o From(t, d + 1)), Len(t) - d)

-----------------------------------------------------------------------------
(* Experiment *)

\* Experiment.__init__: every attribute None, data an empty DataFrame
EmptyFrame == [columns |-> <<>>, rows |-> <<>>]

NewExperiment ==
    [title |-> None, target_Z |-> None, target_A |-> None,
     target_state |-> None, projectile |-> None, reaction |-> None,
     E_inc |-> None, final_Z |-> None, final_A |-> None,
     final_state |-> None, MTrat |-> None, Ratio_isomer |-> None,
     quantity |-> None, frame |-> None, MF |-> None, MT |-> None,
     X4_ID |-> None, X4_code |-> None, author |-> None, year |-> None,
     data_points |-> None, data |-> EmptyFrame, reference |-> None]

-----------------------------------------------------------------------------
(* read_experiment *)

\* filename.split('\\')[-1]
Basename(path) == From(path, RFind(path, "\\") + 1)

\* The elif chain of the metadata branch, in source order.  kind names the
\* conversion: "str" keeps the text; "int_str" tries int() and falls back to
\* the text; "int_int" and "float_float" try the conversion and, in the
\* except clause, call it again on a non-empty value.
Dispatch ==
    << [field |-> "target_Z",     prefix |-> "# Target Z",      kind |-> "int_str"],
       [field |-> "target_A",     prefix |-> "# Target A",      kind |-> "int_int"],
       [field |-> "target_state", prefix |-> "# Target state",  kind |-> "int_str"],
       [field |-> "projectile",   prefix |-> "# Projectile",    kind |-> "str"],
       [field |-> "reaction",     prefix |-> "# Reaction    :", kind |-> "str"],
       [field |-> "E_inc",        prefix |-> "# E-inc",         kind |-> "str"],
       [field |-> "final_Z",      prefix |-> "# Final Z",       kind |-> "int_str"],
       [field |-> "final_A",      prefix |-> "# Final A",       kind |-> "int_str"],
       [field |-> "final_state",  prefix |-> "# Final state",   kind |-> "int_str"],
       [field |-> "MTrat",        prefix |-> "# MTrat",         kind |-> "float_float"],
       [field |-> "Ratio_isomer", prefix |-> "# Ratio isomer",  kind |-> "float_float"],
       [field |-> "quantity",     prefix |-> "# Quantity",      kind |-> "str"],
       [field |-> "frame",        prefix |-> "# Frame",         kind |-> "str"],
       [field |-> "MF",           prefix |-> "# MF",            kind |-> "int_int"],
       [field |-> "MT",           prefix |-> "# MT",            kind |-> "int_int"],
       [field |-> "X4_ID",        prefix |-> "# X4 ID",         kind |-> "str"],
       [field |-> "X4_code",      prefix |-> "# X4 code",       kind |-> "str"],
       [field |-> "author",       prefix |-> "# Author",        kind |-> "str"],
       [field |-> "year",         prefix |-> "# Year",          kind |-> "int_int"],
       [field |-> "data_points",  prefix |-> "# Data points",   kind |-> "int_int"],
       [field |-> "reference",    prefix |-> "# Reference",     kind |-> "ref"] >>

\* Match with the last branch whose prefix the line starts with
MatchLast(l) ==
    IF \E i \in 1..Len(Dispatch) : StartsWith(l, Dispatch[i].prefix)
    THEN CHOOSE i \in 1..Len(Dispatch) :
            /\ StartsWith(l, Dispatch[i].prefix)
            /\ \A j \in (i + 1)..Len(Dispatch) : ~StartsWith(l, Dispatch[j].prefix)
    ELSE 0

\* Match that tries the prefixes only until the header has been read
MatchBeforeTable(l) ==
    IF ~bound /\ \E i \in 1..Len(Dispatch) : StartsWith(l, Dispatch[i].prefix)
    THEN CHOOSE i \in 1..Len(Dispatch) :
            /\ StartsWith(l, Dispatch[i].prefix)
            /\ \A j \in 1..(i - 1) : ~StartsWith(l, Dispatch[j].prefix)
    ELSE 0

\* index in Dispatch of the first branch whose prefix the line starts with,
\* 0 when no branch matches
Match(l) ==
    IF \E i \in 1..Len(Dispatch) : StartsWith(l, Dispatch[i].prefix)
    THEN CHOOSE i \in 1..Len(Dispatch) :
            /\ StartsWith(l, Dispatch[i].prefix)
            /\ \A j \in 1..(i - 1) : ~StartsWith(l, Dispatch[j].prefix)
    ELSE 0

\* StrOrNone without the test for the empty value
StrOrNoneKeepsEmpty(v) == PyStr(v)

\* line.split(':')[1].strip() if line.split(':')[1].strip() != '' else None
StrOrNone(v) == IF v # "" THEN PyStr(v) ELSE None

\* the conversion of a matched branch raises on the trimmed value v
ConvRaises(kind, v) ==
    \/ kind = "int_int" /\ ~IntOk(v) /\ v # ""
    \/ kind = "float_float" /\ ~FloatOk(v) /\ v # ""

\* the value a matched branch assigns for the trimmed value v
Conv(kind, v) ==
    CASE kind = "str" -> StrOrNone(v)
      [] kind = "int_str" -> IF IntOk(v) THEN IntOf(v) ELSE StrOrNone(v)
      [] kind = "int_int" -> IF IntOk(v) THEN IntOf(v) ELSE None
      [] kind = "float_float" -> IF FloatOk(v) THEN FloatOf(v) ELSE None

\* a data line: the first failure of lines 206-222, "" when the line is accepted.
\* hl is len(header), data the tokens of the line.
DataError(isBound, hl, data) ==
    LET n == Len(data)
    IN  IF ~isBound THEN "UnboundLocalError"
        ELSE IF hl < 1 \/ n < 1 THEN "IndexError"
        ELSE IF ~FloatOk(data[1]) THEN "ValueError"
        ELSE IF hl < 2 \/ n < 2 THEN "IndexError"
        ELSE IF ~FloatOk(data[2]) THEN "ValueError"
        ELSE IF n = 2 THEN (IF hl < 4 THEN "IndexError" ELSE "")
        ELSE IF n = 3 THEN
            (IF hl < 3 THEN "IndexError"
             ELSE IF ~FloatOk(data[3]) THEN "ValueError"
             ELSE IF hl < 4 THEN "IndexError" ELSE "")
        ELSE IF n = 4 THEN
            (IF hl < 3 THEN "IndexError"
             ELSE IF ~FloatOk(data[3]) THEN "ValueError"
             ELSE IF hl < 4 THEN "IndexError"
             ELSE IF ~FloatOk(data[4]) THEN "ValueError" ELSE "")
        ELSE ""

\* Appended with the two last lists exchanged for a line of 3 tokens
AppendedSwapped(data) ==
    LET n == Len(data)
    IN  [j \in 1..4 |->
            IF j <= 2 THEN <<FloatOf(data[j])>>
            ELSE IF n = 2 THEN <<NaN>>
            ELSE IF n = 3 THEN (IF j = 4 THEN <<FloatOf(data[3])>> ELSE <<NaN>>)
            ELSE IF n = 4 THEN <<FloatOf(data[j])>>
            ELSE <<>>]

\* the values lines 209-222 append to data_list[0..3] for the tokens of a
\* line, <<>> for a list that gets no value
Appended(data) ==
    LET n == Len(data)
    IN  [j \in 1..4 |->
            IF j <= 2 THEN <<FloatOf(data[j])>>
            ELSE IF n = 2 THEN <<NaN>>
            ELSE IF n = 3 THEN (IF j = 3 THEN <<FloatOf(data[3])>> ELSE <<NaN>>)
            ELSE IF n = 4 THEN <<FloatOf(data[j])>>
            ELSE <<>>]

\* data_list after the appends of one accepted data line
AppendRow(dl, data) ==
    [j \in 1..Len(dl) |-> IF j <= 4 THEN dl[j] \o Appended(data)[j] ELSE dl[j]]

RECURSIVE MaxLen(_)
MaxLen(dl) ==
    IF dl = <<>> THEN 0
    ELSE LET r == MaxLen(Tail(dl))
         IN  IF Len(Head(dl)) > r THEN Len(Head(dl)) ELSE r

\* pd.DataFrame(data_list, index=header).T: one column per name of header,
\* as many rows as the longest list, a shorter list padded with NaN
MakeFrame(dl, hd) ==
    [columns |-> hd,
     rows |-> [i \in 1..MaxLen(dl) |->
                 [j \in 1..Len(dl) |->
                     IF i <= Len(dl[j]) THEN dl[j][i] ELSE NaN]]]

\* the line the for loop is at
CurLine == lines[idx]

Raise ==
    /\ pc' = "done"
    /\ status' = "raised"

\* line 109 without the test of read_ref: a '#' line is matched against the
\* prefixes inside a reference block too
MetadataLineInReference ==
    /\ pc = "read_experiment"
    /\ idx <= Len(lines)
    /\ StartsWith(CurLine, "#") /\ ~read_header
    /\ LET k == Match(CurLine)
           kind == Dispatch[k].kind
           v == Strip(SplitColon1(CurLine))
       IN  IF k = 0 \/ kind = "ref"
           THEN /\ read_ref' = (k # 0)
                /\ idx' = idx + 1
                /\ branch' = Append(branch, "meta")
                /\ UNCHANGED <<pc, status, experiment, read_header, handle>>
           ELSE IF ~HasColon(CurLine) \/ ConvRaises(kind, v)
           THEN /\ Raise
                /\ handle' = "closed"
                /\ UNCHANGED <<idx, branch, experiment, read_header, read_ref>>
           ELSE /\ experiment' = [experiment EXCEPT ![Dispatch[k].field] = Conv(kind, v)]
                /\ read_header' = (Dispatch[k].field = "data_points")
                /\ idx' = idx + 1
                /\ branch' = Append(branch, "meta")
                /\ UNCHANGED <<pc, status, read_ref, handle>>
    /\ UNCHANGED <<filename, lines, temp_line, bound, header, data_list>>
    /\ UNCHANGED <<txtVars, opVars>>

\* lines 109-188: a '#' line outside header and reference mode; an exception
\* leaves the with block of line 104, which closes the file
MetadataLine ==
    /\ pc = "read_experiment"
    /\ idx <= Len(lines)
    /\ StartsWith(CurLine, "#") /\ ~read_ref /\ ~read_header
    /\ LET k == Match(CurLine)
           kind == Dispatch[k].kind
           v == Strip(SplitColon1(CurLine))
       IN  IF k = 0 \/ kind = "ref"
           THEN /\ read_ref' = (k # 0)
                /\ idx' = idx + 1
                /\ branch' = Append(branch, "meta")
                /\ UNCHANGED <<pc, status, experiment, read_header, handle>>
           ELSE IF ~HasColon(CurLine) \/ ConvRaises(kind, v)
           THEN /\ Raise
                /\ handle' = "closed"
                /\ UNCHANGED <<idx, branch, experiment, read_header, read_ref>>
           ELSE /\ experiment' = [experiment EXCEPT ![Dispatch[k].field] = Conv(kind, v)]
                /\ read_header' = (Dispatch[k].field = "data_points")
                /\ idx' = idx + 1
                /\ branch' = Append(branch, "meta")
                /\ UNCHANGED <<pc, status, read_ref, handle>>
    /\ UNCHANGED <<filename, lines, temp_line, bound, header, data_list>>
    /\ UNCHANGED <<txtVars, opVars>>

\* lines 190-193: the line after a 'Data points' line
HeaderLine ==
    /\ pc = "read_experiment"
    /\ idx <= Len(lines)
    /\ ~(StartsWith(CurLine, "#") /\ ~read_ref /\ ~read_header)
    /\ read_header
    /\ header' = DropFirst(Split(CurLine))
    /\ data_list' = [j \in 1..Len(header') |-> <<>>]
    /\ bound' = TRUE
    /\ read_header' = FALSE
    /\ idx' = idx + 1
    /\ branch' = Append(branch, "header")
    /\ UNCHANGED <<pc, status, filename, lines, experiment, read_ref, temp_line, handle>>
    /\ UNCHANGED <<txtVars, opVars>>

\* line 197 as a test of the first character alone
EndsReferenceAnyMarker(l) == StartsWith(l, "#")

\* line 197: line == '#\n'
EndsReference(l) == l = "#\n"

\* line 199: temp_line[:-2], the reference committed at the terminator line
CommitAtTerminator(t) == DropLast(t, 2)

\* lines 195-203: a line inside the reference block
ReferenceLine ==
    /\ pc = "read_experiment"
    /\ idx <= Len(lines)
    /\ ~(StartsWith(CurLine, "#") /\ ~read_ref /\ ~read_header)
    /\ ~read_header
    /\ read_ref
    /\ IF EndsReference(CurLine)
       THEN /\ experiment' = [experiment EXCEPT !.reference = PyStr(CommitAtTerminator(temp_line))]
            /\ read_ref' = FALSE
            /\ temp_line' = ""
       ELSE /\ temp_line' = temp_line \o From(CurLine, 2)
            /\ UNCHANGED <<experiment, read_ref>>
    /\ idx' = idx + 1
    /\ branch' = Append(branch, "ref")
    /\ UNCHANGED <<pc, status, filename, lines, read_header, bound, header,
                   data_list, handle>>
    /\ UNCHANGED <<txtVars, opVars>>

\* lines 205-222: any other line is a data line
DataLine ==
    /\ pc = "read_experiment"
    /\ idx <= Len(lines)
    /\ ~(StartsWith(CurLine, "#") /\ ~read_ref /\ ~read_header)
    /\ ~read_header
    /\ ~read_ref
    /\ LET data == Split(CurLine)
       IN  IF DataError(bound, Len(header), data) # ""
           THEN /\ Raise
                /\ handle' = "closed"
                /\ UNCHANGED <<idx, branch, data_list>>
           ELSE /\ data_list' = AppendRow(data_list, data)
                /\ idx' = idx + 1
                /\ branch' = Append(branch, "data")
                /\ UNCHANGED <<pc, status, handle>>
    /\ UNCHANGED <<filename, lines, experiment, read_header, read_ref,
                   temp_line, bound, header>>
    /\ UNCHANGED <<txtVars, opVars>>

\* line 225 without the slice
CommitAtEndWhole(t) == t

\* line 225: temp_line[:-2], the reference committed at the end of the file
CommitAtEnd(t) == DropLast(t, 2)

\* lines 224-234: the loop is over; commit an open reference, leave the with
\* block (the file is closed), build the table
EndOfLines ==
    /\ pc = "read_experiment"
    /\ idx > Len(lines)
    /\ pc' = "done"
    /\ handle' = "closed"
    /\ LET withRef == IF read_ref
                      THEN [experiment EXCEPT !.reference = PyStr(CommitAtEnd(temp_line))]
                      ELSE experiment
       IN  IF ~bound
           THEN /\ status' = "raised"
                /\ experiment' = withRef
           ELSE /\ status' = "returned"
                /\ experiment' = [withRef EXCEPT !.data = MakeFrame(data_list, header)]
    /\ UNCHANGED <<filename, lines, idx, read_header, read_ref, temp_line,
                   bound, header, data_list, branch>>
    /\ UNCHANGED <<txtVars, opVars>>

-----------------------------------------------------------------------------
(* Input files of read_experiment *)

\* all sequences over S of length at most n
RECURSIVE SeqsUpTo(_, _)
SeqsUpTo(S, n) ==
    IF n = 0 THEN {<<>>}
    ELSE LET shorter == SeqsUpTo(S, n - 1)
         IN  shorter \cup {Append(q, x) : q \in shorter, x \in S}

FileNames == {"data\\p\\exp1.txt", "data/exp2.txt"}

\* values of a metadata line: an integer, a decimal, a text, nothing, and a
\* text that holds a colon
MetaValues == {"12", "1.5", "x", "", "a:b"}

\* the line of the branch i of Dispatch carrying the value v
MetaLine(i, v) ==
    IF Find(Dispatch[i].prefix, ":") # 0
    THEN Dispatch[i].prefix \o " " \o v \o "\n"
    ELSE Dispatch[i].prefix \o ": " \o v \o "\n"

MetaPool == {MetaLine(i, v) : i \in 1..20, v \in MetaValues}

\* a line that starts with '#' and with none of the prefixes
TitleLine == "# Title       : other.txt\n"

\* a line of the reaction without the padding before its colon
UnpaddedReaction == "# Reaction: (p,n)\n"

DataPointsLine == "# Data points: 2\n"
Header4 == "# E xs dxs dE\n"
HeaderPool == {"# E xs\n", "# E xs dxs\n", Header4, "# E xs dxs dE extra\n"}
RowPool == {"1.0 2.5\n", "3.0 4.5 0.5\n", "5 6 7 8\n", "1.0 x 2\n", "1 2 3 4 5\n"}
RefMarker == "# Reference   :\n"
Terminator == "#\n"
BodyPool == {"# Some ref\n", "# MT: 5\n"}

\* any lines in any order
FreePool ==
    {"# Target Z: 12\n", "# Target Z: \n", "# MTrat: 1.5\n", DataPointsLine,
     Header4, "1.0 2.5\n", "5 6 7 8\n", RefMarker, "# Some ref\n", Terminator}

FreeFiles == SeqsUpTo(FreePool, MaxFreeLines)

StdTail == <<DataPointsLine, Header4, "1.0 2.5\n">>

\* one metadata line of every field and value, alone, before a table, after
\* a header, after a data row, or both
MetaFiles ==
    {h \o <<m>> \o t : h \in {<<>>, <<DataPointsLine, Header4>>,
                              <<DataPointsLine, Header4, "1.0 2.5\n">>},
                       m \in MetaPool \cup {TitleLine, UnpaddedReaction},
                       t \in {<<>>, StdTail}}

\* the reference block: absent, or the marker, some body lines and the
\* terminator or the end of the file
RefSections ==
    {<<>>} \cup
    {<<RefMarker>> \o b \o e : b \in SeqsUpTo(BodyPool, MaxRefLines),
                                e \in {<<>>, <<Terminator>>}}

\* metadata, the 'Data points' line, a header, data rows, a reference block
TableFiles ==
    {m \o <<DataPointsLine, h>> \o r \o f :
        m \in {<<>>, <<"# Target Z: 12\n">>}, h \in HeaderPool,
        r \in SeqsUpTo(RowPool, MaxRows), f \in RefSections}

\* data lines of more than 4 tokens with a token that is not a number
LongRowPool == {"1 2 x 4 5\n", "1 2 3 4 x\n"}

LongRowFiles == {<<DataPointsLine, Header4, r>> : r \in LongRowPool}

\* a reference block whose body may hold a line that looks like a data
\* line, closed by the terminator and followed by a metadata line
ClosedBlockFiles ==
    {<<RefMarker>> \o b \o <<Terminator, "# Target Z: 12\n">> :
        b \in SeqsUpTo(BodyPool \cup {"1.0 2.5\n"}, MaxRefLines)}

Files ==
    FreeFiles \cup MetaFiles \cup TableFiles \cup LongRowFiles \cup ClosedBlockFiles

-----------------------------------------------------------------------------
(* Specification of read_experiment *)

IdleTxt ==
    /\ experiments = <<>>
    /\ wi = 0
    /\ txt = ""
    /\ rpos = 0
    /\ line = ""
    /\ loaded = <<>>

\* no collection operation and no method of Experiment has been called
IdleOps ==
    /\ attribute = ""
    /\ value = None
    /\ ret = ""
    /\ filtered_list = <<>>
    /\ unique_values = <<>>
    /\ dfs = <<>>
    /\ printed = <<>>
    /\ csv = <<>>
    /\ calls = 0
    /\ table = EmptyFrame
    /\ files = <<>>
    /\ fi = 0

\* lines 95-106: the state when the for loop starts on the lines ls of the
\* file named fn
StartRead(fn, ls) ==
    /\ pc = "read_experiment"
    /\ status = "running"
    /\ filename = fn
    /\ lines = ls
    /\ idx = 1
    /\ experiment = [NewExperiment EXCEPT !.title = PyStr(Basename(fn))]
    /\ read_header = FALSE
    /\ read_ref = FALSE
    /\ temp_line = ""
    /\ bound = FALSE
    /\ header = <<>>
    /\ data_list = <<>>
    /\ branch = <<>>
    /\ handle = "open"
    /\ IdleTxt
    /\ IdleOps

InitRead == \E fn \in FileNames, ls \in Files : StartRead(fn, ls)

NextRead ==
    \/ MetadataLine
    \/ HeaderLine
    \/ ReferenceLine
    \/ DataLine
    \/ EndOfLines

SpecRead == InitRead /\ [][NextRead]_vars

-----------------------------------------------------------------------------
(* str() and DataFrame.to_string() *)

DigitChar(d) == SubSeq("0123456789", d + 1, d + 1)

RECURSIVE DigitsOf(_)
\* str(n) of a natural number
DigitsOf(n) ==
    IF n < 10 THEN DigitChar(n) ELSE DigitsOf(n \div 10) \o DigitChar(n % 10)

RECURSIVE Pow10(_)
Pow10(k) == IF k = 0 THEN 1 ELSE 10 * Pow10(k - 1)

RECURSIVE Repeat(_, _)
\* c * k
Repeat(c, k) == IF k <= 0 THEN "" ELSE c \o Repeat(c, k - 1)

\* s.rjust(w), and the same with zeros
RJust(s, w) == Repeat(" ", w - Len(s)) \o s
ZFill(s, w) == Repeat("0", w - Len(s)) \o s

\* the float v written with d decimals, d at least the decimals v needs
Fixed(v, d) ==
    DigitsOf(v.m \div Pow10(v.e)) \o "."
        \o (IF v.e = 0 THEN "" ELSE ZFill(DigitsOf(v.m % Pow10(v.e)), v.e))
        \o Repeat("0", d - v.e)

\* str(v)
StrOf(v) ==
    CASE v.t = "none" -> "None"
      [] v.t = "str" -> v.s
      [] v.t = "int" -> DigitsOf(v.m)
      [] v.t = "float" ->
            IF IsNaN(v) THEN "nan" ELSE Fixed(v, IF v.e = 0 THEN 1 ELSE v.e)

Max(a, b) == IF a > b THEN a ELSE b

RECURSIVE MaxOver(_, _, _)
\* the largest f[i] for i in 1..n, at least least
MaxOver(f, n, least) ==
    IF n = 0 THEN least ELSE Max(f[n], MaxOver(f, n - 1, least))

RECURSIVE Join(_, _)
\* sep.join(q)
Join(q, sep) ==
    IF q = <<>> THEN ""
    ELSE IF Len(q) = 1 THEN q[1]
    ELSE q[1] \o sep \o Join(Tail(q), sep)

\* the decimals to_string gives the floats of column j: those of the value
\* that needs the most, at least one
ColumnDecimals(frame, j) ==
    MaxOver([i \in 1..Len(frame.rows) |->
                IF frame.rows[i][j].t = "float" THEN frame.rows[i][j].e ELSE 0],
            Len(frame.rows), 1)

\* the text of the cell of row i and column j
CellText(frame, i, j) ==
    LET v == frame.rows[i][j]
    IN  IF v.t = "float"
        THEN (IF IsNaN(v) THEN "NaN" ELSE Fixed(v, ColumnDecimals(frame, j)))
        ELSE StrOf(v)

\* the width of column j: its name or its widest cell
ColumnWidth(frame, j) ==
    MaxOver([i \in 1..Len(frame.rows) |-> Len(CellText(frame, i, j))],
            Len(frame.rows), Len(frame.columns[j]))

\* data.to_string(header=True, index=False): the header line and one line
\* per row, columns right-aligned and separated by a space, no final newline
to_string(frame) ==
    IF frame.rows = <<>>
    THEN "Empty DataFrame\nColumns: [" \o Join(frame.columns, ", ") \o "]\nIndex: []"
    ELSE LET nc == Len(frame.columns)
             head == Join([j \in 1..nc |-> RJust(frame.columns[j], ColumnWidth(frame, j))], " ")
             row(i) == Join([j \in 1..nc |-> RJust(CellText(frame, i, j), ColumnWidth(frame, j))], " ")
         IN  Join(<<head>> \o [i \in 1..Len(frame.rows) |-> row(i)], "\n")

-----------------------------------------------------------------------------
(* write_experiments_to_txt *)

\* lines 325-335 with str() of the field written also when it is None
TextLineNone(label, v) == label \o StrOf(v) \o "\n"

\* lines 325-335: a text field and a number field, blank when None
TextLine(label, v) == IF ~IsNone(v) THEN label \o v.s \o "\n" ELSE label \o "\n"
NumberLine(label, v) == IF ~IsNone(v) THEN label \o StrOf(v) \o "\n" ELSE label \o "\n"

\* line 340: the reference block; the leading newline that ends the table
\* belongs to the branch of a reference that is not None
ReferenceBlock(v) ==
    IF ~IsNone(v) THEN "\n# Reference   : \n" \o v.s \o "\n" ELSE "# Reference   : \n"

\* lines 323-342: everything one iteration writes for the experiment x
RecordText(x) ==
    "# Title       : " \o x.title.s \o "\n"
    \o TextLine("# Reaction    : ", x.reaction)
    \o NumberLine("# Ratio isomer: ", x.Ratio_isomer)
    \o TextLine("# Quantity    : ", x.quantity)
    \o TextLine("# Frame       : ", x.frame)
    \o NumberLine("# MF          : ", x.MF)
    \o NumberLine("# MT          : ", x.MT)
    \o TextLine("# X4 ID       : ", x.X4_ID)
    \o TextLine("# X4 code     : ", x.X4_code)
    \o TextLine("# Author      : ", x.author)
    \o NumberLine("# Year        : ", x.year)
    \o NumberLine("# Data points : ", x.data_points)
    \o to_string(x.data)
    \o ReferenceBlock(x.reference)
    \o "# END\n"

\* lines 321-342: one iteration of the loop; '...' + experiment.title raises
\* TypeError when the title is None, and the with block of line 320 closes
\* the file
WriteRecord ==
    /\ pc = "write_experiments_to_txt"
    /\ wi <= Len(experiments)
    /\ IF IsStr(experiments[wi].title)
       THEN /\ txt' = txt \o RecordText(experiments[wi])
            /\ wi' = wi + 1
            /\ UNCHANGED <<pc, status, handle>>
       ELSE /\ Raise
            /\ handle' = "closed"
            /\ UNCHANGED <<txt, wi>>
    /\ UNCHANGED <<experiments, rpos, line, loaded>>
    /\ UNCHANGED <<readVars, opVars>>

\* line 344: the file terminator; the file is closed and the reader is called
WriteEnd ==
    /\ pc = "write_experiments_to_txt"
    /\ wi > Len(experiments)
    /\ txt' = txt \o "# END OF FILE"
    /\ handle' = "closed"
    /\ pc' = "open_txt"
    /\ UNCHANGED <<status, experiments, wi, rpos, line, loaded>>
    /\ UNCHANGED <<readVars, opVars>>

-----------------------------------------------------------------------------
(* read_experiments_from_txt *)

\* f.readline() at offset p of the text t: the line and the next offset
ReadLineAt(t, p) ==
    LET rest == From(t, p)
        nl == Find(rest, "\n")
    IN  IF nl = 0 THEN [l |-> rest, p |-> Len(t) + 1]
        ELSE [l |-> SubSeq(rest, 1, nl), p |-> p + nl]

RECURSIVE ReadN(_, _, _)
\* n successive f.readline() from offset p
ReadN(t, p, n) ==
    IF n = 0 THEN <<>>
    ELSE LET r == ReadLineAt(t, p) IN <<r>> \o ReadN(t, r.p, n - 1)

\* line.split(':')[1][:-1] if line.split(':')[1] != '' else ''
TextField(l) ==
    IF SplitColon1(l) # "" THEN PyStr(DropLast(SplitColon1(l), 1)) ELSE PyStr("")

\* float(line.split(':')[1]), '' on ValueError
FloatField(l) == IF FloatOk(SplitColon1(l)) THEN FloatOf(SplitColon1(l)) ELSE PyStr("")

\* int(line.split(':')[1]), '' on ValueError
IntField(l) == IF IntOk(SplitColon1(l)) THEN IntOf(SplitColon1(l)) ELSE PyStr("")

RECURSIVE DataLoop(_, _, _)
\* lines 447-451: from the line l, read at offset p: the token lists of the
\* lines up to the first line that starts with '#'.  At the end of the file
\* readline returns '' for ever and the loop does not end.
DataLoop(t, l, p) ==
    IF StartsWith(l, "#") THEN [ends |-> TRUE, data |-> <<>>, l |-> l, p |-> p]
    ELSE IF l = "" THEN [ends |-> FALSE, data |-> <<>>, l |-> l, p |-> p]
    ELSE LET r == ReadLineAt(t, p)
             rest == DataLoop(t, r.l, r.p)
         IN  [rest EXCEPT !.data = <<Split(l)>> \o rest.data]

RECURSIVE ReferenceLoop(_, _, _)
\* lines 455-459: the lines up to the first line that starts with '# END',
\* one after the other; the same endless loop at the end of the file
ReferenceLoop(t, l, p) ==
    IF StartsWith(l, "# END") THEN [ends |-> TRUE, text |-> "", l |-> l, p |-> p]
    ELSE IF l = "" THEN [ends |-> FALSE, text |-> "", l |-> l, p |-> p]
    ELSE LET r == ReadLineAt(t, p)
             rest == ReferenceLoop(t, r.l, r.p)
         IN  [rest EXCEPT !.text = l \o rest.text]

\* pd.DataFrame(data, columns=header) accepts the rows: no row at all, or
\* the longest row has as many tokens as there are names
FrameFits(data, hd) == data = <<>> \/ MaxLen(data) = Len(hd)

\* pd.DataFrame(data, columns=header): the tokens as strings, a short row
\* padded with None
FrameOfTokens(data, hd) ==
    [columns |-> hd,
     rows |-> [i \in 1..Len(data) |->
                 [j \in 1..Len(hd) |->
                     IF j <= Len(data[i]) THEN PyStr(data[i][j]) ELSE None]]]

\* experiment.reference[:-1] at line 461 is an expression whose value is
\* dropped: the reference keeps its last newline
FinalReference(text) == PyStr(text)

\* lines 400-465: one pass of the inner loop, from the title line l with the
\* file at offset p.  out is "ok", "raised" (IndexError of split(':')[1],
\* ValueError of the DataFrame) or "hangs" (a loop that never ends).
ReadRecord(t, l, p) ==
    LET m == ReadN(t, p, 11)
        h == ReadLineAt(t, m[11].p)
        first == ReadLineAt(t, h.p)
        d == DataLoop(t, first.l, first.p)
        afterMarker == ReadLineAt(t, d.p)
        r == ReferenceLoop(t, afterMarker.l, afterMarker.p)
        next == ReadLineAt(t, r.p)
        rec == [NewExperiment EXCEPT
                    !.title = PyStr(DropLast(SplitColon1(l), 1)),
                    !.reaction = TextField(m[1].l),
                    !.Ratio_isomer = FloatField(m[2].l),
                    !.quantity = TextField(m[3].l),
                    !.frame = TextField(m[4].l),
                    !.MF = FloatField(m[5].l),
                    !.MT = FloatField(m[6].l),
                    !.X4_ID = TextField(m[7].l),
                    !.X4_code = TextField(m[8].l),
                    !.author = TextField(m[9].l),
                    !.year = IntField(m[10].l),
                    !.data_points = IntField(m[11].l),
                    !.data = FrameOfTokens(d.data, Split(h.l)),
                    !.reference = FinalReference(r.text)]
    IN  IF ~HasColon(l) \/ \E k \in 1..11 : ~HasColon(m[k].l)
        THEN [out |-> "raised", rec |-> NewExperiment, l |-> l, p |-> p]
        ELSE IF ~d.ends
        THEN [out |-> "hangs", rec |-> NewExperiment, l |-> d.l, p |-> d.p]
        ELSE IF ~FrameFits(d.data, Split(h.l))
        THEN [out |-> "raised", rec |-> NewExperiment, l |-> d.l, p |-> d.p]
        ELSE IF ~r.ends
        THEN [out |-> "hangs", rec |-> NewExperiment, l |-> r.l, p |-> r.p]
        ELSE [out |-> "ok", rec |-> rec, l |-> next.l, p |-> next.p]

\* lines 385-389: open the file and read the first line
OpenTxt ==
    /\ pc = "open_txt"
    /\ handle' = "open"
    /\ loaded' = <<>>
    /\ line' = ReadLineAt(txt, 1).l
    /\ rpos' = ReadLineAt(txt, 1).p
    /\ pc' = "read_experiments_from_txt"
    /\ UNCHANGED <<status, experiments, wi, txt>>
    /\ UNCHANGED <<readVars, opVars>>

\* lines 391-399: the test of the outer loop on a line that starts with
\* '# END': '# END OF FILE' closes the file (line 395, the only close of the
\* function) and returns the list; any other such line is never
\* replaced, and the two loops test it for ever
EndLine ==
    /\ pc = "read_experiments_from_txt"
    /\ StartsWith(line, "# END")
    /\ pc' = "done"
    /\ status' = IF StartsWith(line, "# END OF FILE") THEN "returned" ELSE "hangs"
    /\ handle' = IF StartsWith(line, "# END OF FILE") THEN "closed" ELSE handle
    /\ UNCHANGED <<experiments, wi, txt, rpos, line, loaded>>
    /\ UNCHANGED <<readVars, opVars>>

\* lines 399-465: one pass of the inner loop reads one experiment
TxtRecord ==
    /\ pc = "read_experiments_from_txt"
    /\ ~StartsWith(line, "# END")
    /\ LET r == ReadRecord(txt, line, rpos)
       IN  IF r.out = "ok"
           THEN /\ loaded' = Append(loaded, r.rec)
                /\ line' = r.l
                /\ rpos' = r.p
                /\ UNCHANGED <<pc, status>>
           ELSE /\ pc' = "done"
                /\ status' = r.out
                /\ UNCHANGED <<loaded, line, rpos>>
    /\ UNCHANGED <<experiments, wi, txt, handle>>
    /\ UNCHANGED <<readVars, opVars>>

-----------------------------------------------------------------------------
(* Input collections of write_experiments_to_txt *)

Num(tok) == FloatOf(tok)

\* tables as read_experiment builds them: 4 named columns of floats
FullTable ==
    [columns |-> <<"E", "xs", "dxs", "dE">>,
     rows |-> << <<Num("1.0"), Num("2.5"), Num("0.25"), Num("0.1")>>,
                 <<Num("3.0"), Num("12.0"), Num("0.5"), Num("0.1")>> >>]

PaddedTable ==
    [columns |-> <<"E", "xs", "dxs", "dE">>,
     rows |-> << <<Num("1.0"), Num("2.5"), NaN, NaN>> >>]

TablePool == {FullTable, PaddedTable}

ThreeLines == "A. Author\nJour. 12 (1999)\nsecond note"
ReferencePool == {None, PyStr("Some ref"), PyStr(ThreeLines), PyStr("# END")}

\* a Record with no field None
FullMeta ==
    [NewExperiment EXCEPT
        !.title = PyStr("exp1.txt"), !.target_Z = PyInt(26), !.target_A = PyInt(56),
        !.target_state = PyStr("m"), !.projectile = PyStr("p"),
        !.reaction = PyStr("(p,n)"), !.E_inc = PyStr("14.1 MeV"),
        !.final_Z = PyInt(27), !.final_A = PyInt(56), !.final_state = PyInt(1),
        !.MTrat = Num("1.0"), !.Ratio_isomer = Num("0.5"),
        !.quantity = PyStr("Cross section"), !.frame = PyStr("L"),
        !.MF = PyInt(3), !.MT = PyInt(102), !.X4_ID = PyStr("O0123"),
        !.X4_code = PyStr("(26-FE-56(P,N)27-CO-56,,SIG)"),
        !.author = PyStr("Smith"), !.year = PyInt(1999), !.data_points = PyInt(2)]

\* a Record with every field but the title None
NullMeta == [NewExperiment EXCEPT !.title = PyStr("exp2.txt")]

\* the Records of the collections: the two sets of fields with every table
\* and reference, and the Experiment as the constructor leaves it
RecordPool ==
    {[x EXCEPT !.data = tb, !.reference = rf] :
        x \in {FullMeta, NullMeta}, tb \in TablePool, rf \in ReferencePool}
    \cup {NewExperiment}

InitTxt ==
    /\ pc = "write_experiments_to_txt"
    /\ status = "running"
    /\ experiments \in SeqsUpTo(RecordPool, MaxExperiments)
    /\ wi = 1
    /\ txt = ""
    /\ rpos = 0
    /\ line = ""
    /\ loaded = <<>>
    /\ filename = ""
    /\ lines = <<>>
    /\ idx = 0
    /\ experiment = NewExperiment
    /\ read_header = FALSE
    /\ read_ref = FALSE
    /\ temp_line = ""
    /\ bound = FALSE
    /\ header = <<>>
    /\ data_list = <<>>
    /\ branch = <<>>
    /\ handle = "open"
    /\ IdleOps

NextTxt ==
    \/ WriteRecord
    \/ WriteEnd
    \/ OpenTxt
    \/ EndLine
    \/ TxtRecord

\* write_experiments_to_txt(experiments, f) followed by
\* read_experiments_from_txt(f)
SpecTxt == InitTxt /\ [][NextTxt]_vars

-----------------------------------------------------------------------------
(* Experiment.to_dataframe and the DataFrame operations it uses *)

\* position of the first column named c, 0 if the frame has none
ColumnIndex(frame, c) ==
    IF \E j \in 1..Len(frame.columns) : frame.columns[j] = c
    THEN CHOOSE j \in 1..Len(frame.columns) :
            frame.columns[j] = c /\ \A k \in 1..(j - 1) : frame.columns[k] # c
    ELSE 0

\* frame[c] = v for a scalar v, or for the list [v]*len(frame): an existing
\* column is overwritten in place, a new one is appended
SetColumn(frame, c, v) ==
    LET j == ColumnIndex(frame, c)
    IN  IF j = 0
        THEN [columns |-> Append(frame.columns, c),
              rows |-> [i \in 1..Len(frame.rows) |-> Append(frame.rows[i], v)]]
        ELSE [frame EXCEPT !.rows =
                 [i \in 1..Len(frame.rows) |-> [frame.rows[i] EXCEPT ![j] = v]]]

\* BroadcastColumns with the attribute of 'Final A' given to 'Final Z' too
BroadcastColumnsFinalA ==
    << <<"Experiment", "title">>, <<"Target Z", "target_Z">>,
       <<"Target A", "target_A">>, <<"Target state", "target_state">>,
       <<"Reaction", "reaction">>, <<"Incident energy", "E_inc">>,
       <<"Final Z", "final_A">>, <<"Final A", "final_A">>,
       <<"Final state", "final_state">>, <<"MT ratio", "MTrat">>,
       <<"Ratio isomer", "Ratio_isomer">>, <<"Quantity", "quantity">>,
       <<"Frame", "frame">>, <<"MF", "MF">>, <<"MT", "MT">>,
       <<"Author", "author">>, <<"Year", "year">> >>

\* lines 115-117 and 124-140: the added columns and the attribute of each
BroadcastColumns ==
    << <<"Experiment", "title">>, <<"Target Z", "target_Z">>,
       <<"Target A", "target_A">>, <<"Target state", "target_state">>,
       <<"Reaction", "reaction">>, <<"Incident energy", "E_inc">>,
       <<"Final Z", "final_Z">>, <<"Final A", "final_A">>,
       <<"Final state", "final_state">>, <<"MT ratio", "MTrat">>,
       <<"Ratio isomer", "Ratio_isomer">>, <<"Quantity", "quantity">>,
       <<"Frame", "frame">>, <<"MF", "MF">>, <<"MT", "MT">>,
       <<"Author", "author">>, <<"Year", "year">> >>

RECURSIVE Broadcast(_, _, _)
\* lines 122-142: the loop over the attributes, from the k-th on
Broadcast(x, data, k) ==
    IF k > Len(BroadcastColumns) THEN data
    ELSE Broadcast(x, SetColumn(data, BroadcastColumns[k][1],
                                x[BroadcastColumns[k][2]]), k + 1)

\* lines 120-144: a copy of the table with one column per attribute
to_dataframe(x) == Broadcast(x, x.data, 1)

\* the columns of b that a does not have, in the order of b
NewColumns(a, b) ==
    SelectSeq(b.columns, LAMBDA c : ColumnIndex(a, c) = 0)

\* the rows of the frame laid out on the columns cols, NaN where the frame
\* has no such column
Reindexed(frame, cols) ==
    [i \in 1..Len(frame.rows) |->
        [j \in 1..Len(cols) |->
            IF ColumnIndex(frame, cols[j]) = 0 THEN NaN
            ELSE frame.rows[i][ColumnIndex(frame, cols[j])]]]

\* pd.concat([a, b]).reset_index(drop=True): the rows of a, then those of b,
\* on the union of the columns in order of appearance
Concat(a, b) ==
    LET cols == a.columns \o NewColumns(a, b)
    IN  [columns |-> cols, rows |-> Reindexed(a, cols) \o Reindexed(b, cols)]

-----------------------------------------------------------------------------
(* Experiment.add_numeric_attributes, encode_categorical_attributes and
   prepare_data *)

\* line 151
NumericAttributes ==
    <<"E_inc", "MF", "MT", "MTrat", "Ratio_isomer", "final_A", "final_Z",
      "target_A", "target_Z">>

\* line 157 with the last token in place of the first
FirstElementLast(v) == Split(v.s)[Len(Split(v.s))]

\* line 157: value.split()[0]
FirstElement(v) == Split(v.s)[1]

\* lines 154-168: setting the column of attr raises: E_inc that is not a str
\* (AttributeError), has no token (IndexError) or whose first token is no
\* number (ValueError); int() of a text that is no integer or of NaN
NumericRaises(attr, v) ==
    IF IsNone(v) THEN FALSE
    ELSE IF attr = "E_inc"
    THEN ~IsStr(v) \/ Split(v.s) = <<>> \/ ~FloatOk(FirstElement(v))
    ELSE IF attr \in {"MTrat", "final_A", "final_Z"}
    THEN (IsStr(v) /\ ~IntOk(v.s)) \/ IsNaN(v)
    ELSE FALSE

\* lines 154-168: the value the column of attr is set to
NumericValue(attr, v) ==
    IF IsNone(v) THEN None
    ELSE IF attr = "E_inc" THEN FloatOf(FirstElement(v))
    ELSE IF attr \in {"MTrat", "final_A", "final_Z"}
    THEN IF IsStr(v) THEN IntOf(v.s) ELSE PyInt(v.m \div Pow10(v.e))
    ELSE v

RECURSIVE AddNumeric(_, _, _)
\* lines 153-168: the loop from the k-th attribute on; the columns set
\* before an exception stay in the table
AddNumeric(x, data, k) ==
    IF k > Len(NumericAttributes) THEN [data |-> data, raised |-> FALSE]
    ELSE LET attr == NumericAttributes[k]
         IN  IF NumericRaises(attr, x[attr]) THEN [data |-> data, raised |-> TRUE]
             ELSE AddNumeric(x, SetColumn(data, attr, NumericValue(attr, x[attr])), k + 1)

\* lines 175-182
categorical_attributes ==
    <<
       [attribute |-> "projectile", possible_values |-> <<"projectile_p">>],
       [attribute |-> "final_state", possible_values |-> <<"final_state_+",
           "final_state_1", "final_state_2", "final_state_G", "final_state_M">>],
       [attribute |-> "frame", possible_values |-> <<"frame_C", "frame_L">>],
       [attribute |-> "quantity", possible_values |-> <<
           "qty_Angular distribution", "qty_Cross section",
           "qty_Cross section ratio", "qty_Delayed nubar",
           "qty_Differential cross section", "qty_Fission yields",
           "qty_Prompt nubar", "qty_Resonance Parameters", "qty_Total nubar">>],
       [attribute |-> "reaction", possible_values |-> <<"reaction_(n, )",
           "reaction_(p, el)", "reaction_(p, f)", "reaction_(p, x)",
           "reaction_(p, xa)", "reaction_(p, xd)", "reaction_(p, xg)",
           "reaction_(p, xh)", "reaction_(p, xn)", "reaction_(p, xp)",
           "reaction_(p, xt)", "reaction_(p,2a)", "reaction_(p,2n)",
           "reaction_(p,2n)g", "reaction_(p,2n)m", "reaction_(p,2na)",
           "reaction_(p,2np)", "reaction_(p,2p)", "reaction_(p,2p)g",
           "reaction_(p,2p)m", "reaction_(p,3a)", "reaction_(p,3n)",
           "reaction_(p,3n)g", "reaction_(p,3n)m", "reaction_(p,3n)n",
           "reaction_(p,3na)", "reaction_(p,3np)", "reaction_(p,3np)g",
           "reaction_(p,3np)m", "reaction_(p,4n)", "reaction_(p,4n)g",
           "reaction_(p,4n)m", "reaction_(p,a)", "reaction_(p,a)g",
           "reaction_(p,a)m", "reaction_(p,d)", "reaction_(p,d2a)",
           "reaction_(p,da)", "reaction_(p,f)", "reaction_(p,f)g",
           "reaction_(p,f)m", "reaction_(p,f)n", "reaction_(p,g)",
           "reaction_(p,g)g", "reaction_(p,g)m", "reaction_(p,h)",
           "reaction_(p,h)g", "reaction_(p,n')", "reaction_(p,n')g",
           "reaction_(p,n')m", "reaction_(p,n')n", "reaction_(p,n'_01)",
           "reaction_(p,n'_40)", "reaction_(p,n2a)", "reaction_(p,n2p)",
           "reaction_(p,n3a)", "reaction_(p,na)", "reaction_(p,na)g",
           "reaction_(p,na)m", "reaction_(p,non)", "reaction_(p,np)",
           "reaction_(p,np)g", "reaction_(p,np)m", "reaction_(p,npa)",
           "reaction_(p,p)", "reaction_(p,p)m", "reaction_(p,pa)",
           "reaction_(p,pd)", "reaction_(p,pt)", "reaction_(p,t)",
           "reaction_(p,xa)", "reaction_(p,xd)", "reaction_(p,xg)",
           "reaction_(p,xh)", "reaction_(p,xn)", "reaction_(p,xp)",
           "reaction_(p,xt)", "reaction_Exchange_scattering",
           "reaction_Inelastic_scattering", "reaction_ratio">>],
       [attribute |-> "target_state", possible_values |-> <<"target_state_m">>]
    >>

\* the names of all the indicator columns, in the order of the dictionary
IndicatorColumns ==
    categorical_attributes[1].possible_values
    \o categorical_attributes[2].possible_values
    \o categorical_attributes[3].possible_values
    \o categorical_attributes[4].possible_values
    \o categorical_attributes[5].possible_values
    \o categorical_attributes[6].possible_values

\* the attribute whose list holds the column
AttributeOf(col) ==
    categorical_attributes[
        CHOOSE k \in 1..Len(categorical_attributes) :
            \E j \in 1..Len(categorical_attributes[k].possible_values) :
                categorical_attributes[k].possible_values[j] = col].attribute

\* line 191 with the whole column name in place of its last piece
ComparisonValueWhole(col) == col

\* line 191: value.split('_')[-1]
ComparisonValue(col) == From(col, RFind(col, "_") + 1)

\* line 193: int(current_attribute_value == comparison_value)
Indicator(x, col) ==
    IF PyEq(x[AttributeOf(col)], PyStr(ComparisonValue(col))) THEN PyInt(1) ELSE PyInt(0)

\* lines 183-197: the indicator columns are appended to the table, one value
\* per row; pd.concat(axis=1) appends them again when they are there already
Encoded(x, data) ==
    [columns |-> data.columns \o IndicatorColumns,
     rows |-> [i \in 1..Len(data.rows) |->
                 data.rows[i] \o [j \in 1..Len(IndicatorColumns) |->
                                     Indicator(x, IndicatorColumns[j])]]]

\* lines 206-209 with the indicator columns added before the numeric ones
PreparedEncodeFirst(x) ==
    LET n == AddNumeric(x, Encoded(x, x.data), 1)
    IN  IF n.raised THEN n
        ELSE [data |-> SetColumn(n.data, "X4_ID", PyStr(StrOf(x.X4_ID))),
              raised |-> FALSE]

\* lines 206-209
Prepared(x) ==
    LET n == AddNumeric(x, x.data, 1)
    IN  IF n.raised THEN n
        ELSE [data |-> SetColumn(Encoded(x, n.data), "X4_ID", PyStr(StrOf(x.X4_ID))),
              raised |-> FALSE]

\* the state after the call of a method: the table of the object, whether
\* the call raised, and the table it returned (r is "None" when it returns
\* nothing)
MethodCalled(name, data, raised, r, returned) ==
    /\ calls < MaxCalls
    /\ pc' = name
    /\ calls' = calls + 1
    /\ experiment' = [experiment EXCEPT !.data = data]
    /\ status' = IF raised THEN "raised" ELSE "returned"
    /\ ret' = IF raised THEN "" ELSE r
    /\ table' = IF raised THEN EmptyFrame ELSE returned
    /\ UNCHANGED <<filename, lines, idx, read_header, read_ref, temp_line,
                   bound, header, data_list, branch>>
    /\ UNCHANGED <<txtVars, handle>>
    /\ UNCHANGED <<attribute, value, filtered_list, unique_values, dfs, printed, csv>>
    /\ UNCHANGED walkVars

ToDataframe ==
    MethodCalled("to_dataframe", experiment.data, FALSE, "DataFrame",
                 to_dataframe(experiment))

AddNumericAttributes ==
    LET n == AddNumeric(experiment, experiment.data, 1)
    IN  MethodCalled("add_numeric_attributes", n.data, n.raised, "None", EmptyFrame)

EncodeCategoricalAttributes ==
    MethodCalled("encode_categorical_attributes",
                 Encoded(experiment, experiment.data), FALSE, "None", EmptyFrame)

PrepareData ==
    LET p == Prepared(experiment)
    IN  MethodCalled("prepare_data", p.data, p.raised, "DataFrame", p.data)

\* the table read_experiment builds under the header '# E MT dxs dE': the
\* columns carry the names of the header line (line 230)
NamedMT ==
    MakeFrame(<< <<Num("1.0")>>, <<Num("2.5")>>, <<Num("0.25")>>, <<Num("0.1")>> >>,
              <<"E", "MT", "dxs", "dE">>)

\* a table with its header and no row
HeaderOnly == [columns |-> <<"E", "xs", "dxs", "dE">>, rows |-> <<>>]

\* the values of the attributes the methods read
AttributeCases ==
    {[a |-> "frame", v |-> PyStr("C")], [a |-> "frame", v |-> PyStr("X")],
     [a |-> "frame", v |-> None],
     [a |-> "reaction", v |-> PyStr("Exchange_scattering")],
     [a |-> "reaction", v |-> PyStr("scattering")],
     [a |-> "reaction", v |-> PyStr("(p,n')")],
     [a |-> "final_state", v |-> PyStr("1")],
     [a |-> "final_state", v |-> PyStr("G")],
     [a |-> "quantity", v |-> None],
     [a |-> "E_inc", v |-> None], [a |-> "E_inc", v |-> PyStr("12 keV lab")],
     [a |-> "E_inc", v |-> PyStr("MeV")],
     [a |-> "MTrat", v |-> None], [a |-> "MTrat", v |-> PyStr("x")],
     [a |-> "MTrat", v |-> PyInt(2)]}

\* an Experiment with all its fields set, and the same with one attribute
\* changed, on a table of no, one or two rows
ExperimentPool ==
    {[x EXCEPT !.data = tb] :
        x \in {FullMeta} \cup {[FullMeta EXCEPT ![c.a] = c.v] : c \in AttributeCases},
        tb \in {EmptyFrame, HeaderOnly, PaddedTable, FullTable}}
    \cup {[FullMeta EXCEPT !.data = NamedMT]}

InitExperiment ==
    /\ pc = "Experiment"
    /\ status = "running"
    /\ experiment \in ExperimentPool
    /\ filename = ""
    /\ lines = <<>>
    /\ idx = 0
    /\ read_header = FALSE
    /\ read_ref = FALSE
    /\ temp_line = ""
    /\ bound = FALSE
    /\ header = <<>>
    /\ data_list = <<>>
    /\ branch = <<>>
    /\ handle = "closed"
    /\ IdleTxt
    /\ IdleOps

NextExperiment ==
    \/ ToDataframe
    \/ AddNumericAttributes
    \/ EncodeCategoricalAttributes
    \/ PrepareData

\* any sequence of at most MaxCalls calls on one Experiment
SpecExperiment == InitExperiment /\ [][NextExperiment]_vars

-----------------------------------------------------------------------------
(* np.unique *)

\* the characters of code 32 to 95, and those of code 97 to 126, in the
\* order of their codes
AsciiLow == " !\"#$%&'()*+,-./0123456789:;<=>?@ABCDEFGHIJKLMNOPQRSTUVWXYZ[\\]^_"
AsciiHigh == "abcdefghijklmnopqrstuvwxyz{|}~"

\* ord(c)
Ord(c) ==
    IF Find(AsciiLow, c) # 0 THEN 31 + Find(AsciiLow, c)
    ELSE 96 + Find(AsciiHigh, c)

RECURSIVE StrLess(_, _)
\* a < b between two str: by the code of the first character that differs,
\* a proper prefix first
StrLess(a, b) ==
    IF b = "" THEN FALSE
    ELSE IF a = "" THEN TRUE
    ELSE IF Ch(a, 1) = Ch(b, 1) THEN StrLess(From(a, 2), From(b, 2))
    ELSE Ord(Ch(a, 1)) < Ord(Ch(b, 1))

\* a < b between two numbers
NumLess(a, b) == a.m * Pow10(b.e) < b.m * Pow10(a.e)

\* np.array(vals).dtype: object as soon as one element is None, otherwise
\* str as soon as one is a str, otherwise float as soon as one is a float
ArrayKind(vals) ==
    IF \E i \in 1..Len(vals) : IsNone(vals[i]) THEN "object"
    ELSE IF \E i \in 1..Len(vals) : IsStr(vals[i]) THEN "str"
    ELSE IF \E i \in 1..Len(vals) : vals[i].t = "float" THEN "float"
    ELSE "int"

\* the element v of a list as np.array stores it in an array of that dtype
Cast(v, kind) ==
    CASE kind = "str" -> PyStr(StrOf(v))
      [] kind = "float" -> IF IsNaN(v) THEN v ELSE PyFloat(v.m, v.e)
      [] OTHER -> v

\* the order np.unique sorts with
Less(kind, a, b) ==
    IF kind = "str" THEN StrLess(a.s, b.s) ELSE NumLess(a, b)

RECURSIVE Sorted(_, _)
\* the elements of the set S in increasing order
Sorted(S, kind) ==
    IF S = {} THEN <<>>
    ELSE LET least == CHOOSE x \in S : \A y \in S \ {x} : Less(kind, x, y)
         IN  <<least>> \o Sorted(S \ {least}, kind)

\* np.unique(vals) raises TypeError: sorting an object array of two or more
\* elements compares None with '<'
UniqueRaises(vals) == ArrayKind(vals) = "object" /\ Len(vals) >= 2

\* list(np.unique(vals)) when it does not raise
Unique(vals) ==
    Sorted({Cast(vals[i], ArrayKind(vals)) : i \in 1..Len(vals)}, ArrayKind(vals))

-----------------------------------------------------------------------------
(* filter_experiments, get_unique_values, classify_experiments *)

\* [attr for attr in dir(experiments[0]) if not attr.startswith('__')]: the
\* attributes set by __init__ and the methods of the class, sorted
Dir ==
    <<"E_inc", "MF", "MT", "MTrat", "Ratio_isomer", "X4_ID", "X4_code",
      "add_numeric_attributes", "author", "data", "data_points",
      "encode_categorical_attributes", "final_A", "final_Z", "final_state",
      "frame", "plot", "prepare_data", "projectile", "quantity", "reaction",
      "reference", "target_A", "target_Z", "target_state", "title",
      "to_dataframe", "year">>

\* hasattr(experiments[0], a)
HasAttr(a) == \E k \in 1..Len(Dir) : Dir[k] = a

\* one call of print: a text, or a list of names, or a list of values
PrintText(s) == [text |-> s, names |-> <<>>, values |-> <<>>]
PrintNames(q) == [text |-> "", names |-> q, values |-> <<>>]
PrintValues(q) == [text |-> "", names |-> <<>>, values |-> q]

\* lines 585-588 and 645-648: the attribute does not exist
NotFound(a) ==
    <<PrintText("Attribute " \o a \o " does not exist\n"),
      PrintText("Available attributes:"),
      PrintNames(Dir)>>

\* [getattr(obj, a) for obj in experiments]
AttributeValues(xs, a) == [i \in 1..Len(xs) |-> xs[i][a]]

\* the outcome of a call: the exception raised ("" if none), what is
\* returned ("None", "list" or "dict"), the returned values, the positions of
\* the returned Records in the collection, and what was printed
Outcome(exc, r, vs, ps, out) ==
    [raised |-> exc, ret |-> r, values |-> vs, picked |-> ps, printed |-> out]

\* lines 643-653
get_unique_values(xs, a) ==
    IF xs = <<>> THEN Outcome("IndexError", "", <<>>, <<>>, <<>>)
    ELSE IF ~HasAttr(a) THEN Outcome("", "None", <<>>, <<>>, NotFound(a))
    ELSE IF UniqueRaises(AttributeValues(xs, a))
    THEN Outcome("TypeError", "", <<>>, <<>>, <<>>)
    ELSE Outcome("", "list", Unique(AttributeValues(xs, a)), <<>>, <<>>)

\* line 591: the positions of the objects with getattr(obj, a) == v
Matching(xs, a, v) ==
    SelectSeq([i \in 1..Len(xs) |-> i], LAMBDA i : PyEq(xs[i][a], v))

\* lines 583-604
filter_experiments(xs, a, v) ==
    IF xs = <<>> THEN Outcome("IndexError", "", <<>>, <<>>, <<>>)
    ELSE IF ~HasAttr(a) THEN Outcome("", "None", <<>>, <<>>, NotFound(a))
    ELSE LET picked == Matching(xs, a, v)
             none == <<PrintText("No experiments with " \o a \o " = "
                                 \o StrOf(v) \o "\n"),
                       PrintText("Available values for " \o a \o ":")>>
         IN  IF Len(picked) = 0
             THEN IF UniqueRaises(AttributeValues(xs, a))
                  THEN Outcome("TypeError", "", <<>>, <<>>, none)
                  ELSE Outcome("", "None", <<>>, <<>>,
                               Append(none, PrintValues(Unique(AttributeValues(xs, a)))))
             ELSE Outcome("", "list", <<>>, picked,
                          <<PrintText(DigitsOf(Len(picked)) \o " experiments with "
                                      \o a \o " = " \o StrOf(v))>>)

\* dfs[value]: the position of the key equal to v, 0 (KeyError) if none
KeyIndex(keys, v) ==
    IF \E j \in 1..Len(keys) : PyEq(keys[j], v)
    THEN CHOOSE j \in 1..Len(keys) : PyEq(keys[j], v)
    ELSE 0

RECURSIVE Classified(_, _, _, _)
\* lines 735-739: the loop over the experiments from the i-th on; tables has
\* one table per key; <<>> stands for the KeyError of dfs[value]
Classified(xs, a, tables, i) ==
    IF i > Len(xs) THEN tables
    ELSE LET j == KeyIndex([k \in 1..Len(tables) |-> tables[k].key], xs[i][a])
         IN  IF j = 0 THEN <<>>
             ELSE Classified(xs, a,
                     [tables EXCEPT ![j].df = Concat(tables[j].df, to_dataframe(xs[i]))],
                     i + 1)

\* line 743: the name of the file of a key
CsvName(a, key) ==
    "EXFOR_ProtonReactions_Classified_by_" \o a \o "/" \o a \o "_"
        \o StrOf(key) \o ".csv"

\* lines 726-746; dirExists tells whether the directory of the csv files
\* exists.  values holds the tables, picked is unused.
classify_experiments(xs, a, dirExists) ==
    LET u == get_unique_values(xs, a)
        empty == [k \in 1..Len(u.values) |-> [key |-> u.values[k], df |-> EmptyFrame]]
        tables == Classified(xs, a, empty, 1)
    IN  IF u.raised # "" THEN u
        ELSE IF u.ret = "None" THEN Outcome("TypeError", "", <<>>, <<>>, u.printed)
        ELSE IF tables = <<>> THEN Outcome("KeyError", "", <<>>, <<>>, <<>>)
        ELSE IF ~dirExists THEN Outcome("OSError", "", <<>>, <<>>, <<>>)
        ELSE Outcome("", "dict", tables, <<>>, <<>>)

\* Records as read_experiment returns them: the frame is 'L', 'C' or None,
\* target_Z an int or the text the file held, the year one of two ints
CollectionPool ==
    {[FullMeta EXCEPT !.data = PaddedTable],
     [FullMeta EXCEPT !.frame = PyStr("C"), !.data = FullTable],
     [FullMeta EXCEPT !.frame = None, !.data = PaddedTable],
     [FullMeta EXCEPT !.target_Z = PyStr("x"), !.data = PaddedTable],
     [FullMeta EXCEPT !.frame = PyStr("C"), !.year = PyInt(2001), !.data = PaddedTable]}

\* three attributes of Experiment and a name that is not one
AttributePool == {"frame", "target_Z", "year", "energy"}

ValuePool ==
    {None, PyStr("C"), PyStr("L"), PyStr("26"), PyInt(26), PyStr("x"),
     PyInt(1999), PyInt(7)}

\* the state after a call that made the outcome o
Called(name, a, v, o) ==
    /\ pc' = name
    /\ attribute' = a
    /\ value' = v
    /\ status' = IF o.raised = "" THEN "returned" ELSE "raised"
    /\ ret' = o.ret
    /\ printed' = o.printed
    /\ UNCHANGED <<experiments, wi, txt, rpos, line, loaded, handle, calls, table>>
    /\ UNCHANGED <<readVars, walkVars>>

CallFilterExperiments ==
    \E a \in AttributePool, v \in ValuePool :
        LET o == filter_experiments(experiments, a, v)
        IN  /\ Called("filter_experiments", a, v, o)
            /\ filtered_list' = [k \in 1..Len(o.picked) |-> experiments[o.picked[k]]]
            /\ unique_values' = <<>>
            /\ dfs' = <<>>
            /\ csv' = <<>>

CallGetUniqueValues ==
    \E a \in AttributePool :
        LET o == get_unique_values(experiments, a)
        IN  /\ Called("get_unique_values", a, None, o)
            /\ unique_values' = o.values
            /\ filtered_list' = <<>>
            /\ dfs' = <<>>
            /\ csv' = <<>>

CallClassifyExperiments ==
    \E a \in AttributePool, dirExists \in BOOLEAN :
        LET o == classify_experiments(experiments, a, dirExists)
        IN  /\ Called("classify_experiments", a, None, o)
            /\ dfs' = o.values
            /\ csv' = [k \in 1..Len(o.values) |->
                          [name |-> CsvName(a, o.values[k].key), df |-> o.values[k].df]]
            /\ unique_values' = [k \in 1..Len(o.values) |-> o.values[k].key]
            /\ filtered_list' = <<>>

\* read_experiment is not running
IdleRead ==
    /\ filename = ""
    /\ lines = <<>>
    /\ idx = 0
    /\ experiment = NewExperiment
    /\ read_header = FALSE
    /\ read_ref = FALSE
    /\ temp_line = ""
    /\ bound = FALSE
    /\ header = <<>>
    /\ data_list = <<>>
    /\ branch = <<>>

InitCollection ==
    /\ pc = "collection"
    /\ status = "running"
    /\ experiments \in SeqsUpTo(CollectionPool, MaxCollection)
    /\ wi = 0
    /\ txt = ""
    /\ rpos = 0
    /\ line = ""
    /\ loaded = <<>>
    /\ handle = "closed"
    /\ IdleRead
    /\ IdleOps

NextCollection ==
    \/ CallFilterExperiments
    \/ CallGetUniqueValues
    \/ CallClassifyExperiments

\* any sequence of calls on one collection
SpecCollection == InitCollection /\ [][NextCollection]_vars

-----------------------------------------------------------------------------
(* read_experiments_from_txt on files that are cut short *)

RECURSIVE WrittenText(_)
\* lines 321-342: what the loop of the writer emits for the Records of q
WrittenText(q) == IF q = <<>> THEN "" ELSE RecordText(Head(q)) \o WrittenText(Tail(q))

\* the Records whose text the files are cut from
WrittenPool ==
    {[FullMeta EXCEPT !.data = FullTable, !.reference = PyStr("Some ref")],
     [NullMeta EXCEPT !.data = PaddedTable, !.reference = PyStr(ThreeLines)]}

\* the file the writer leaves for some Records, whole, and cut after any of
\* its lines: the empty file, files that end inside the metadata, inside a
\* table or inside a reference block, and files without '# END OF FILE'
CutTexts ==
    UNION {LET t == WrittenText(q) \o "# END OF FILE"
           IN  {t, ""} \cup {SubSeq(t, 1, n) : n \in {i \in 1..Len(t) : Ch(t, i) = "\n"}}
           : q \in SeqsUpTo(WrittenPool, MaxExperiments) \ {<<>>}}

InitTxtFile ==
    /\ pc = "open_txt"
    /\ status = "running"
    /\ txt \in CutTexts
    /\ experiments = <<>>
    /\ wi = 0
    /\ rpos = 0
    /\ line = ""
    /\ loaded = <<>>
    /\ handle = "closed"
    /\ IdleRead
    /\ IdleOps

NextTxtFile ==
    \/ OpenTxt
    \/ EndLine
    \/ TxtRecord

\* one call of read_experiments_from_txt on a file
SpecTxtFile == InitTxtFile /\ [][NextTxtFile]_vars

-----------------------------------------------------------------------------
(* read_proton_experiments_from_exfortables *)

MaxFiles == 3

EndsWith(s, p) == Len(s) >= Len(p) /\ SubSeq(s, Len(s) - Len(p) + 1, Len(s)) = p

\* os.path.join on a system whose separator is '/'
PathJoin(a, b) == a \o "/" \o b

RECURSIVE Chain(_)
\* the sequences of q one after another
Chain(q) == IF q = <<>> THEN <<>> ELSE Head(q) \o Chain(Tail(q))

\* An entry of a directory listing: a directory with its own listing in
\* items, or a file with its lines in text.  The order of a listing is the
\* order os.listdir returns.
IsDir(e) == e.isdir

\* lines 526 and 535 with every file of the directory kept
KeepsFileAll(e) == ~e.isdir

\* lines 526 and 535: a file whose name ends neither with 'list' nor 'ruth'
KeepsFile(e) == ~e.isdir /\ ~EndsWith(e.name, "list") /\ ~EndsWith(e.name, "ruth")

\* line 510: a subdirectory whose name does not end with 'list'
KeepsSubdir(e) == e.isdir /\ ~EndsWith(e.name, "list")

\* lines 526 and 535: the files of the listing of the directory p
\* that are read, each with its joined path
FilesOf(p, listing) ==
    LET kept == SelectSeq(listing, KeepsFile)
    IN  [k \in 1..Len(kept) |-> [name |-> PathJoin(p, kept[k].name), text |-> kept[k].text]]

\* lines 514-541: the files read for the subdirectory sd of the directory p:
\* those of its own subdirectories when it has one, else its own
SubdirFiles(p, sd) ==
    LET here == PathJoin(p, sd.name)
        subsubdirs == SelectSeq(sd.items, IsDir)
    IN  IF subsubdirs # <<>>
        THEN Chain([k \in 1..Len(subsubdirs) |->
                       FilesOf(PathJoin(here, subsubdirs[k].name), subsubdirs[k].items)])
        ELSE FilesOf(here, sd.items)

\* lines 503-541: the files in the order the nested loops reach them
WalkOrder(path, listing) ==
    LET dirs == SelectSeq(listing, IsDir)
        OfDir(d) ==
            LET subdirs == SelectSeq(d.items, KeepsSubdir)
            IN  Chain([k \in 1..Len(subdirs) |->
                          SubdirFiles(PathJoin(path, d.name), subdirs[k])])
    IN  Chain([k \in 1..Len(dirs) |-> OfDir(dirs[k])])

\* lines 530 and 539, the call: read_experiment starts on the next
\* file of the walk (lines 95-106)
ReadFile ==
    /\ pc = "read_proton_experiments_from_exfortables"
    /\ fi < Len(files)
    /\ fi' = fi + 1
    /\ pc' = "read_experiment"
    /\ filename' = files[fi + 1].name
    /\ lines' = files[fi + 1].text
    /\ idx' = 1
    /\ experiment' = [NewExperiment EXCEPT !.title = PyStr(Basename(files[fi + 1].name))]
    /\ read_header' = FALSE
    /\ read_ref' = FALSE
    /\ temp_line' = ""
    /\ bound' = FALSE
    /\ header' = <<>>
    /\ data_list' = <<>>
    /\ branch' = <<>>
    /\ handle' = "open"
    /\ UNCHANGED <<status, txtVars, collVars, calls, table, files>>

\* lines 532 and 541 with the Record kept also when the read raised
AppendExperimentAlways ==
    /\ pc = "done"
    /\ fi > 0
    /\ experiments' = Append(experiments, experiment)
    /\ pc' = "read_proton_experiments_from_exfortables"
    /\ status' = "running"
    /\ UNCHANGED <<readVars, wi, txt, rpos, line, loaded, handle, opVars>>

\* lines 532 and 541: the Record read_experiment returned is
\* appended to the list.  No handler surrounds the call, so after an
\* exception the function is left and no step follows.
AppendExperiment ==
    /\ pc = "done"
    /\ status = "returned"
    /\ fi > 0
    /\ experiments' = Append(experiments, experiment)
    /\ pc' = "read_proton_experiments_from_exfortables"
    /\ status' = "running"
    /\ UNCHANGED <<readVars, wi, txt, rpos, line, loaded, handle, opVars>>

\* line 542: the loops are over and the list is returned
ReturnExperiments ==
    /\ pc = "read_proton_experiments_from_exfortables"
    /\ fi = Len(files)
    /\ pc' = "caller"
    /\ status' = "returned"
    /\ ret' = "experiments"
    /\ UNCHANGED <<readVars, txtVars, handle, attribute, value, filtered_list,
                   unique_values, dfs, printed, csv, calls, table, walkVars>>

\* the lines of the files of the tree: two files read_experiment returns a
\* Record for, one with a reference block, and two it fails on, at a
\* metadata line and at the end of a file without a header line
TextPool ==
    {<<"# Target Z: 12\n", DataPointsLine, Header4, "1.0 2.5\n">>,
     <<DataPointsLine, Header4, "1.0 2.5 0.25\n", RefMarker, "# A. Author\n", Terminator>>,
     <<"# MF: x\n", DataPointsLine, Header4>>,
     <<"# Target Z: 12\n">>}

FileEntry(n, t) == [name |-> n, isdir |-> FALSE, items |-> <<>>, text |-> t]
DirEntry(n, listing) == [name |-> n, isdir |-> TRUE, items |-> listing, text |-> <<>>]

\* the files of the texts q, named in order
Named(q) == [k \in 1..Len(q) |-> FileEntry("exp" \o DigitChar(k) \o ".txt", q[k])]

\* the texts q in a subdirectory next to a 'list' file, a 'ruth' file and a
\* subdirectory whose name ends with 'list'; a file beside the directories
FlatTree(q) ==
    << FileEntry("README", <<"# MF: x\n">>),
       DirEntry("Fe", << DirEntry("056", <<FileEntry("Fe056.list", <<"# MF: x\n">>)>> \o Named(q)
                                  \o <<FileEntry("p-Fe056.ruth", <<"# MF: x\n">>)>>),
                    DirEntry("oldlist", <<FileEntry("exp9.txt", <<"# MF: x\n">>)>>) >>) >>

\* the texts q split over two directories below a subdirectory that also
\* holds a file of its own, which is not read
DeepTree(q) ==
    << DirEntry("Fe", << DirEntry("056", << FileEntry("loose.txt", <<"# MF: x\n">>),
                                  DirEntry("xs", IF q = <<>> THEN <<>> ELSE <<Named(q)[1]>>),
                                  DirEntry("ratio", IF q = <<>> THEN <<>> ELSE Tail(Named(q))) >>) >>) >>

TreePool ==
    {FlatTree(q) : q \in SeqsUpTo(TextPool, MaxFiles)}
    \cup {DeepTree(q) : q \in SeqsUpTo(TextPool, MaxFiles)}

InitTables ==
    /\ pc = "read_proton_experiments_from_exfortables"
    /\ status = "running"
    /\ files \in {WalkOrder("X4", t) : t \in TreePool}
    /\ fi = 0
    /\ experiments = <<>>
    /\ wi = 0
    /\ txt = ""
    /\ rpos = 0
    /\ line = ""
    /\ loaded = <<>>
    /\ handle = "closed"
    /\ IdleRead
    /\ attribute = ""
    /\ value = None
    /\ ret = ""
    /\ filtered_list = <<>>
    /\ unique_values = <<>>
    /\ dfs = <<>>
    /\ printed = <<>>
    /\ csv = <<>>
    /\ calls = 0
    /\ table = EmptyFrame

NextTables ==
    \/ ReadFile
    \/ MetadataLine
    \/ HeaderLine
    \/ ReferenceLine
    \/ DataLine
    \/ EndOfLines
    \/ AppendExperiment
    \/ ReturnExperiments

\* one call of read_proton_experiments_from_exfortables on a directory tree
SpecTables == InitTables /\ [][NextTables]_vars

-----------------------------------------------------------------------------
(* Properties of read_experiment *)

Fields == {Dispatch[i].field : i \in 1..20}

NumericFields ==
    {"target_Z", "target_A", "target_state", "final_Z", "final_A",
     "final_state", "MTrat", "Ratio_isomer", "MF", "MT", "year", "data_points"}

\* the text of a line after its first colon, trimmed
AfterColon(l) == Strip(From(l, Find(l, ":") + 1))

\* the field a line is matched to by its prefix, "" when it is matched to none
FieldOf(l) == IF Match(l) \in 1..20 THEN Dispatch[Match(l)].field ELSE ""

\* the number of lines the loop has gone through
Last == Len(branch)

\* the loop has stopped with an error on a line it took as a metadata line
RaisedOnMetadata ==
    /\ status = "raised"
    /\ idx <= Len(lines)
    /\ StartsWith(lines[idx], "#") /\ ~read_ref /\ ~read_header

\* the loop has stopped with an error on a line it took as a data line
RaisedOnData ==
    /\ status = "raised"
    /\ idx <= Len(lines)
    /\ ~StartsWith(lines[idx], "#") /\ ~read_ref /\ ~read_header

\* a metadata line of a numeric field whose value is not empty and is not a number
UnparsableNumeric(l) ==
    /\ FieldOf(l) \in NumericFields
    /\ HasColon(l)
    /\ AfterColon(l) # ""
    /\ ~IntOk(AfterColon(l)) /\ ~FloatOk(AfterColon(l))

\* C2: in read_experiment a metadata line of a numeric field whose value is
\* not empty and cannot be parsed as a number never raises; the field is set
\* to the trimmed text and the loop goes on to the next line.
NumericFallbackKeepsText ==
    /\ ~(RaisedOnMetadata /\ UnparsableNumeric(lines[idx]))
    /\ (Last >= 1 /\ branch[Last] = "meta" /\ UnparsableNumeric(lines[Last]))
          => experiment[FieldOf(lines[Last])] = PyStr(AfterColon(lines[Last]))

\* a metadata line of a field other than 'Data points' that the format accepts
ValidMetaLine(l) ==
    /\ Match(l) \in 1..19
    /\ HasColon(l)
    /\ ~ConvRaises(Dispatch[Match(l)].kind, AfterColon(l))
    /\ Dispatch[Match(l)].kind = "int_str" => (IntOk(AfterColon(l)) \/ AfterColon(l) = "")

ValidDataPointsLine(l) ==
    /\ Match(l) = 20
    /\ HasColon(l)
    /\ IntOk(AfterColon(l)) \/ AfterColon(l) = ""

\* a data line of 2 to 4 numeric tokens
ValidRow(l) ==
    /\ ~StartsWith(l, "#")
    /\ Len(Split(l)) \in 2..4
    /\ \A j \in 1..Len(Split(l)) : FloatOk(Split(l)[j])

\* a reference block: nothing, or the marker, body lines and the terminator
\* or the end of the file
ValidRefSection(ls) ==
    \/ ls = <<>>
    \/ /\ StartsWith(ls[1], "# Reference")
       /\ \A j \in 2..Len(ls) :
            /\ StartsWith(ls[j], "#")
            /\ ls[j] = Terminator => j = Len(ls)

\* a file of the format from which metadata lines, possibly the 'Data points'
\* line too, have been left out: valid metadata lines, the 'Data points' line
\* or not, the header of 4 names, valid rows, a reference block
MetadataLeftOut(ls) ==
    \E a \in 0..Len(ls), h \in 1..Len(ls), r \in 0..Len(ls) :
        /\ a < h /\ h <= r
        /\ \A j \in 1..a : ValidMetaLine(ls[j])
        /\ h = a + 1 \/ (h = a + 2 /\ ValidDataPointsLine(ls[a + 1]))
        /\ ls[h] = Header4
        /\ \A j \in (h + 1)..r : ValidRow(ls[j])
        /\ ValidRefSection(SubSeq(ls, r + 1, Len(ls)))

\* C3: read_experiment returns a Record for a file from which any subset of
\* the metadata lines is absent, the 'Data points' line included; every
\* absent field is left None.
AbsentLinesStillParse ==
    (pc = "done" /\ MetadataLeftOut(lines)) =>
        /\ status = "returned"
        /\ \A f \in Fields :
             (\A j \in 1..Len(lines) : FieldOf(lines[j]) # f) => experiment[f] = None

\* the number of data lines among the first k lines that follow the last
\* header line among them: a header line starts the lists anew (line 192)
RECURSIVE RowIndex(_)
RowIndex(k) ==
    IF k = 0 \/ branch[k] = "header" THEN 0
    ELSE RowIndex(k - 1) + (IF branch[k] = "data" THEN 1 ELSE 0)

\* the row of the data line k is in the lists: no header line was read after it
InLists(k) == branch[k] = "data" /\ \A j \in (k + 1)..Last : branch[j] # "header"

\* every data line read so far has 2 to 4 tokens
RowsOfTwoToFour ==
    \A k \in 1..Last : branch[k] = "data" => Len(Split(lines[k])) \in 2..4

\* the cell the table is to hold in column c for a data line
PaddedCell(l, c) == IF c <= Len(Split(l)) THEN FloatOf(Split(l)[c]) ELSE NaN

\* C4: column padding.  In a file whose data lines have 2 to 4 tokens, the
\* row of a data line holds the line's tokens in order in its first columns
\* and NaN in the columns the line has no token for (columns 3 and 4 for 2
\* tokens, column 4 for 3 tokens, none for 4 tokens), in the lists while the
\* file is read and in the table of the returned Record, rows being counted
\* from the last header line; and a data line of 2 to 4 numeric tokens read
\* under a header of at least 4 names raises no error.
ColumnPadding ==
    /\ RowsOfTwoToFour =>
         \A k \in 1..Last : InLists(k) =>
            \A c \in 1..4 :
                /\ status = "running" => data_list[c][RowIndex(k)] = PaddedCell(lines[k], c)
                /\ status = "returned" =>
                      experiment.data.rows[RowIndex(k)][c] = PaddedCell(lines[k], c)
    /\ ~(RaisedOnData /\ ValidRow(lines[idx]) /\ bound /\ Len(header) >= 4)

\* a Record has been returned for a file with a 2-token and a 3-token data line
ColumnPaddingWitness ==
    /\ status = "returned"
    /\ RowsOfTwoToFour
    /\ \E k \in 1..Last : branch[k] = "data" /\ Len(Split(lines[k])) = 2
    /\ \E k \in 1..Last : branch[k] = "data" /\ Len(Split(lines[k])) = 3
    /\ Len(experiment.data.rows) = 2

\* C5: the table of every Record read_experiment returns has exactly 4
\* columns, whatever the header line and the data lines are.
AlwaysFourColumns ==
    status = "returned" =>
        /\ Len(experiment.data.columns) = 4
        /\ \A i \in 1..Len(experiment.data.rows) : Len(experiment.data.rows[i]) = 4

\* a metadata line of a recognised field with nothing but whitespace after
\* its colon
BlankValue(l) ==
    /\ FieldOf(l) # ""
    /\ HasColon(l)
    /\ \A i \in (Find(l, ":") + 1)..Len(l) : IsSpace(Ch(l, i))

\* C6: null handling.  A metadata line of a recognised field whose value
\* after the colon is empty or whitespace sets the field to None, never to
\* the empty string, and never raises.
EmptyValueIsNone ==
    /\ ~(RaisedOnMetadata /\ BlankValue(lines[idx]))
    /\ (Last >= 1 /\ branch[Last] = "meta" /\ BlankValue(lines[Last]))
          => experiment[FieldOf(lines[Last])] = None

\* a blank line of a field has just reset the value an earlier line had set
EmptyValueIsNoneWitness ==
    /\ status = "running"
    /\ Last >= 2
    /\ branch[Last] = "meta" /\ BlankValue(lines[Last])
    /\ branch[Last - 1] = "meta" /\ ~BlankValue(lines[Last - 1])
    /\ FieldOf(lines[Last - 1]) = FieldOf(lines[Last])
    /\ experiment[FieldOf(lines[Last])] = None

\* the file of the end-to-end scenario
EndToEndFile ==
    <<"# Target Z: 12\n", DataPointsLine, Header4, "1.0 2.5\n", "1.0 2.5\n",
      RefMarker, "# Some ref\n", Terminator>>

\* C7: for the end-to-end file read_experiment returns a Record with
\* target_Z = 12, a table of 2 rows whose columns 3 and 4 are NaN, and a
\* reference that is the content line with none of its text missing.
EndToEndScenario ==
    (pc = "done" /\ lines = EndToEndFile) =>
        /\ status = "returned"
        /\ experiment.target_Z = PyInt(12)
        /\ Len(experiment.data.rows) = 2
        /\ \A i \in 1..Len(experiment.data.rows) :
              IsNaN(experiment.data.rows[i][3]) /\ IsNaN(experiment.data.rows[i][4])
        /\ experiment.reference \in
              {PyStr(" Some ref"), PyStr("Some ref"), PyStr(" Some ref\n"), PyStr("Some ref\n")}

\* the index of the last line before line k that was not read as a reference line
RECURSIVE BlockStart(_)
BlockStart(k) ==
    IF k = 0 \/ branch[k] # "ref" THEN k ELSE BlockStart(k - 1)

\* the lines i..j, each without its first character, one after the other
RECURSIVE BodyText(_, _)
BodyText(i, j) ==
    IF i > j THEN "" ELSE From(lines[i], 2) \o BodyText(i + 1, j)

\* the line just read was the terminator of a reference block
JustCommitted ==
    /\ Last >= 1
    /\ branch[Last] = "ref"
    /\ lines[Last] = Terminator

\* C8: at the terminator line the reference holds the body lines in order,
\* each without its marker, newlines kept; nothing of the body text is
\* removed at the commit (at most the newline that ends the block).
ReferenceCommitKeepsBody ==
    JustCommitted =>
        LET body == BodyText(BlockStart(Last - 1) + 1, Last - 1)
        IN  \/ experiment.reference = PyStr(body)
            \/ experiment.reference = PyStr(DropLast(body, 1)) /\ Ch(body, Len(body)) = "\n"

-----------------------------------------------------------------------------
(* Properties of write_experiments_to_txt and read_experiments_from_txt *)

ScalarFields == Fields \cup {"title", "reference"}

\* the fields write_experiments_to_txt writes a line for
WrittenFields ==
    {"title", "reaction", "Ratio_isomer", "quantity", "frame", "MF", "MT",
     "X4_ID", "X4_code", "author", "year", "data_points"}

NoNullField(x) == \A f \in ScalarFields : ~IsNone(x[f])

\* a table of 4 columns and at least one row with a number in every cell
FullyPopulated(tb) ==
    /\ Len(tb.columns) = 4
    /\ tb.rows # <<>>
    /\ \A i \in 1..Len(tb.rows) : \A j \in 1..4 :
          IsNumber(tb.rows[i][j]) /\ ~IsNaN(tb.rows[i][j])

\* a line of the text begins with '# END'
HasEndLine(s) ==
    \/ StartsWith(s, "# END")
    \/ \E i \in 1..Len(s) : Ch(s, i) = "\n" /\ StartsWith(From(s, i + 1), "# END")

\* the writer has written the whole collection and the reader has stopped
TxtDone == pc = "done" /\ wi > Len(experiments)

\* C1: round trip.  For a Record r with no None field and a fully populated
\* table, reading the file written for [r] returns one Record whose written
\* fields equal r's (strings character for character, numbers by value) and
\* whose table cells equal r's as numbers.
RoundTrip ==
    (TxtDone /\ Len(experiments) = 1 /\ NoNullField(experiments[1])
             /\ FullyPopulated(experiments[1].data)
             /\ ~HasEndLine(experiments[1].reference.s)) =>
        /\ status = "returned"
        /\ Len(loaded) = 1
        /\ \A f \in WrittenFields : PyEq(loaded[1][f], experiments[1][f])
        /\ Len(loaded[1].data.rows) = Len(experiments[1].data.rows)
        /\ \A i \in 1..Len(loaded[1].data.rows) : \A j \in 1..4 :
              /\ IsNumber(loaded[1].data.rows[i][j])
              /\ PyEq(loaded[1].data.rows[i][j], experiments[1].data.rows[i][j])

\* the number of newlines of a text
RECURSIVE Newlines(_)
Newlines(s) ==
    IF s = "" THEN 0 ELSE (IF Ch(s, 1) = "\n" THEN 1 ELSE 0) + Newlines(From(s, 2))

\* a reference of 3 lines of free text, none beginning with '#'
ThreeFreeLines(v) ==
    /\ IsStr(v)
    /\ Newlines(v.s) = 2
    /\ ~StartsWith(v.s, "#")
    /\ \A i \in 1..(Len(v.s) - 1) : Ch(v.s, i) = "\n" => Ch(v.s, i + 1) \notin {"#", "\n"}

\* C9: reference preservation.  For a Record whose reference is 3 lines of
\* free text, reading the file written for [r] returns a Record whose
\* reference is exactly those 3 lines: nothing added, dropped or changed.
ReferencePreserved ==
    (TxtDone /\ Len(experiments) = 1 /\ ThreeFreeLines(experiments[1].reference)) =>
        /\ status = "returned"
        /\ Len(loaded) = 1
        /\ loaded[1].reference = experiments[1].reference

\* a collection the writer writes to the end, no reference holding a
\* '# END' line of its own
Writable(xs) ==
    \A i \in 1..Len(xs) :
        /\ IsStr(xs[i].title)
        /\ IsStr(xs[i].reference) => ~HasEndLine(xs[i].reference.s)

\* the reference text the writer puts in the block of x
WrittenReference(x) == IF IsNone(x.reference) THEN "" ELSE x.reference.s

\* C10: framing.  For every collection of n Records the writer writes, also
\* with Records whose reference or other fields are None, the reader returns
\* n Records in the written order, each with the rows and the reference of
\* its own block and nothing of a following Record.
Framing ==
    (TxtDone /\ Writable(experiments)) =>
        /\ status = "returned"
        /\ Len(loaded) = Len(experiments)
        /\ \A i \in 1..Len(loaded) :
              /\ Strip(loaded[i].title.s) = experiments[i].title.s
              /\ Len(loaded[i].data.rows) = Len(experiments[i].data.rows)
              /\ \A k \in 1..Len(loaded[i].data.rows) : Len(loaded[i].data.rows[k]) = 4
              /\ Strip(loaded[i].reference.s) = Strip(WrittenReference(experiments[i]))

-----------------------------------------------------------------------------
(* Properties of the collection operations *)

\* the names that are fields of a Record
IsField(a) == a \in DOMAIN NewExperiment

CollectionCalls == {"filter_experiments", "get_unique_values", "classify_experiments"}

\* filter_experiments(experiments, attribute, v) for each v of unique_values
Parts ==
    [j \in 1..Len(unique_values) |->
        filter_experiments(experiments, attribute, unique_values[j])]

\* the number of those results that hold the i-th Record of the collection
Holders(i) ==
    Cardinality({j \in 1..Len(unique_values) :
                    \E k \in 1..Len(Parts[j].picked) : Parts[j].picked[k] = i})

\* C11: for every collection, the empty one included, and every field name,
\* get_unique_values returns a list, filter_experiments returns a list for
\* each of its values, and every Record of the collection is in the result
\* of exactly one of the values (so the results are disjoint and together
\* hold the whole collection).
FilterTotality ==
    (pc = "get_unique_values" /\ IsField(attribute)) =>
        /\ status = "returned"
        /\ ret = "list"
        /\ \A j \in 1..Len(unique_values) : Parts[j].ret = "list"
        /\ \A i \in 1..Len(experiments) : Holders(i) = 1

\* C12: a call of filter_experiments, get_unique_values or
\* classify_experiments with a name that is no attribute of the Records
\* returns None, prints the list of the available names last, leaves the
\* collection as it was and raises nothing.
UnknownField ==
    [][(pc' \in CollectionCalls /\ ~HasAttr(attribute') /\ experiments # <<>>) =>
            /\ status' = "returned"
            /\ ret' = "None"
            /\ printed' # <<>>
            /\ printed'[Len(printed')] = PrintNames(Dir)
            /\ experiments' = experiments]_vars

\* the Records whose field a equals v, in the order of the collection
Selected(xs, a, v) == SelectSeq(xs, LAMBDA x : PyEq(x[a], v))

\* C13: for a field name, filter_experiments returns the Records whose field
\* equals the value, in their order, when there is one, and None when there
\* is none; it never raises, whatever values the field holds.
FilterResult ==
    (pc = "filter_experiments" /\ IsField(attribute) /\ experiments # <<>>) =>
        /\ status = "returned"
        /\ IF Selected(experiments, attribute, value) # <<>>
           THEN ret = "list" /\ filtered_list = Selected(experiments, attribute, value)
           ELSE ret = "None" /\ filtered_list = <<>>

-----------------------------------------------------------------------------
(* Properties of the methods of Experiment *)

HasColumn(frame, col) == ColumnIndex(frame, col) # 0

\* the values, over all rows, of the columns of the frame named col
Cells(frame, col) ==
    {frame.rows[i][j] : i \in 1..Len(frame.rows),
                        j \in {k \in 1..Len(frame.columns) : frame.columns[k] = col}}

\* encode_categorical_attributes has run to its end on the object
Encodes ==
    pc \in {"encode_categorical_attributes", "prepare_data"} /\ status = "returned"

\* the prefix of the indicator columns of a categorical field
ColumnPrefix(a) == IF a = "quantity" THEN "qty" ELSE a

\* the category of an indicator column: the whole text that follows the
\* prefix and its underscore
CategoryValue(col) == From(col, Len(ColumnPrefix(AttributeOf(col))) + 2)

\* C14: after encode_categorical_attributes every indicator column of every
\* categorical field is in the table and holds, in every row, 1 when the
\* field of the Record equals the category of the column (the whole text
\* after the prefix and its underscore) and 0 when it does not.
OneHotEncoding ==
    Encodes =>
        \A k \in 1..Len(IndicatorColumns) :
            LET col == IndicatorColumns[k]
            IN  /\ HasColumn(experiment.data, col)
                /\ Cells(experiment.data, col) \subseteq
                     {IF PyEq(experiment[AttributeOf(col)], PyStr(CategoryValue(col)))
                      THEN PyInt(1) ELSE PyInt(0)}

\* C15: encode_categorical_attributes never raises; after it a Record whose
\* frame is 'C' has frame_C = 1 and frame_L = 0 in every row, and a Record
\* whose frame is None or any value other than 'C' and 'L' has 0 in both.
OneHotClosure ==
    /\ pc = "encode_categorical_attributes" => status = "returned"
    /\ Encodes =>
        /\ HasColumn(experiment.data, "frame_C")
        /\ HasColumn(experiment.data, "frame_L")
        /\ experiment.frame = PyStr("C") =>
              /\ Cells(experiment.data, "frame_C") \subseteq {PyInt(1)}
              /\ Cells(experiment.data, "frame_L") \subseteq {PyInt(0)}
        /\ experiment.frame \notin {PyStr("C"), PyStr("L")} =>
              /\ Cells(experiment.data, "frame_C") \subseteq {PyInt(0)}
              /\ Cells(experiment.data, "frame_L") \subseteq {PyInt(0)}

\* a Record of frame 'C' with at least one row has been encoded
OneHotClosureWitness ==
    /\ pc = "encode_categorical_attributes"
    /\ experiment.frame = PyStr("C")
    /\ Cells(experiment.data, "frame_C") = {PyInt(1)}
    /\ Cells(experiment.data, "frame_L") = {PyInt(0)}

\* the text before the first whitespace of s
LeadingToken(s) == SubSeq(s, 1, FirstSpace(s) - 1)

\* a number, whitespace, then a unit
NumberAndUnit(v) ==
    /\ IsStr(v)
    /\ FloatOk(LeadingToken(v.s))
    /\ Strip(From(v.s, FirstSpace(v.s))) # ""

\* C16: after add_numeric_attributes (alone or in prepare_data) the E_inc
\* column holds in every row the number of the leading token of an E_inc
\* made of a number, whitespace and a unit, and None in every row when E_inc
\* is None.
EnergyCoercion ==
    pc \in {"add_numeric_attributes", "prepare_data"} =>
        /\ NumberAndUnit(experiment.E_inc) =>
              /\ HasColumn(experiment.data, "E_inc")
              /\ Cells(experiment.data, "E_inc") \subseteq
                    {FloatOf(LeadingToken(experiment.E_inc.s))}
        /\ IsNone(experiment.E_inc) =>
              /\ HasColumn(experiment.data, "E_inc")
              /\ Cells(experiment.data, "E_inc") \subseteq {None}

\* an E_inc of three tokens has been coerced on a table with rows
EnergyCoercionWitness ==
    /\ pc = "add_numeric_attributes"
    /\ status = "returned"
    /\ experiment.E_inc = PyStr("12 keV lab")
    /\ Cells(experiment.data, "E_inc") = {FloatOf("12")}

-----------------------------------------------------------------------------
(* Properties of read_experiment: title and metadata values *)

\* the part of a path after its last separator, '/' or '\'
PathBasename(path) == From(path, Max(RFind(path, "/"), RFind(path, "\\")) + 1)

\* C17: at every point of read_experiment, whatever separator the path uses
\* and whatever lines the file holds (a '# Title' line included), the title
\* is the basename of the path.
TitleIsBasename == experiment.title = PyStr(PathBasename(filename))

\* the values a field can hold for the text s: the text, or the number it
\* writes
ValuesOf(s) ==
    {PyStr(s)} \cup (IF IntOk(s) THEN {IntOf(s)} ELSE {})
               \cup (IF FloatOk(s) THEN {FloatOf(s)} ELSE {})

\* C18: after a metadata line matched to a field, with a value that is not
\* blank, the field holds everything that follows the first colon of the
\* line, trimmed (as text, or as the number it writes), also when that text
\* holds further colons.
ValueAfterFirstColon ==
    (Last >= 1 /\ branch[Last] = "meta" /\ FieldOf(lines[Last]) # ""
        /\ HasColon(lines[Last]) /\ AfterColon(lines[Last]) # "")
    => experiment[FieldOf(lines[Last])] \in ValuesOf(AfterColon(lines[Last]))

-----------------------------------------------------------------------------
(* Properties of write_experiments_to_txt: the layout of the file *)

RECURSIVE LinesOf(_)
\* text.split('\n')
LinesOf(s) ==
    IF Find(s, "\n") = 0 THEN <<s>>
    ELSE <<SubSeq(s, 1, Find(s, "\n") - 1)>> \o LinesOf(From(s, Find(s, "\n") + 1))

\* the metadata lines in their canonical order: the label and the field
Canonical ==
    << <<"# Reaction    : ", "reaction">>, <<"# Ratio isomer: ", "Ratio_isomer">>,
       <<"# Quantity    : ", "quantity">>, <<"# Frame       : ", "frame">>,
       <<"# MF          : ", "MF">>, <<"# MT          : ", "MT">>,
       <<"# X4 ID       : ", "X4_ID">>, <<"# X4 code     : ", "X4_code">>,
       <<"# Author      : ", "author">>, <<"# Year        : ", "year">>,
       <<"# Data points : ", "data_points">> >>

\* the value of a metadata line: blank for None
ValueText(v) == IF IsNone(v) THEN "" ELSE StrOf(v)

\* the text d is the block of the Record x: the title line, the 11 metadata
\* lines, then the table, then the reference block, then the '# END' line
BlockLayout(x, d) ==
    LET L == LinesOf(d)
        head == Join([k \in 1..12 |-> L[k] \o "\n"], "")
        rest == From(d, Len(head) + 1)
        ref == IF IsNone(x.reference) THEN "" ELSE x.reference.s \o "\n"
    IN  /\ Len(L) >= 14
        /\ L[1] = "# Title       : " \o x.title.s
        /\ \A k \in 1..11 : L[1 + k] = Canonical[k][1] \o ValueText(x[Canonical[k][2]])
        /\ \E sep \in {"", "\n"} :
              rest = to_string(x.data) \o sep \o "# Reference   : \n" \o ref \o "# END\n"
        /\ L[Len(L) - 1] = "# END" /\ L[Len(L)] = ""

\* the number of lines of the text that are '# END'
EndLines(t) ==
    Cardinality({i \in 1..Len(t) :
        /\ i = 1 \/ Ch(t, i - 1) = "\n"
        /\ i + 4 <= Len(t) /\ SubSeq(t, i, i + 4) = "# END"
        /\ i + 5 > Len(t) \/ Ch(t, i + 5) = "\n"})

NoEndInReferences ==
    \A i \in 1..Len(experiments) :
        IsStr(experiments[i].reference) => ~HasEndLine(experiments[i].reference.s)

\* C19: every pass of the loop of write_experiments_to_txt appends to the
\* file the block of its Record: the title line, one line for each of
\* reaction, Ratio isomer, quantity, frame, MF, MT, X4 ID, X4 code, author,
\* year and data points in that order, blank (never 'None') for a None
\* field, then the table, then the reference block, then one '# END' line;
\* the step after the last Record appends '# END OF FILE' as the final line,
\* and the file then holds one '# END' line per Record when no reference
\* holds one.
WriterLayout ==
    [][/\ (pc = "write_experiments_to_txt" /\ wi' = wi + 1) =>
             /\ SubSeq(txt', 1, Len(txt)) = txt
             /\ BlockLayout(experiments[wi], From(txt', Len(txt) + 1))
       /\ (pc = "write_experiments_to_txt" /\ pc' = "open_txt") =>
             /\ txt' = txt \o "# END OF FILE"
             /\ From(txt', RFind(txt', "\n") + 1) = "# END OF FILE"
             /\ NoEndInReferences => EndLines(txt') = Len(experiments)]_vars

\* a collection of two Records, the first with None fields and a None
\* reference, the second with none, has been written to the end
WriterLayoutWitness ==
    /\ pc = "open_txt"
    /\ Len(experiments) = 2
    /\ IsNone(experiments[1].reaction) /\ IsNone(experiments[1].reference)
    /\ NoNullField(experiments[2])
    /\ EndLines(txt) = 2

-----------------------------------------------------------------------------
(* Properties of the file handling of the two readers *)

\* C20: when read_experiment or read_experiments_from_txt has left, by a
\* return or by an exception raised while it parsed a line, the file it
\* opened is closed.
FileClosedOnExit ==
    (pc = "done" /\ status \in {"returned", "raised"}) => handle = "closed"

-----------------------------------------------------------------------------
(* Properties of read_experiment: the modes of the loop *)

\* every token of the line is a number
AllNumeric(l) == \A j \in 1..Len(Split(l)) : FloatOk(Split(l)[j])

\* C21: a data line (not starting with '#', outside header and reference
\* mode) with a token that is not a number, at any position of the line,
\* makes read_experiment fail: no Record is returned for a file with such a
\* line.
NonNumericTokenFails ==
    status = "returned" =>
        \A k \in 1..Last : branch[k] = "data" => AllNumeric(lines[k])

-----------------------------------------------------------------------------
(* Properties of read_experiments_from_txt: the fields without a value *)

\* the block of experiments[i] begins where the reader begins its ith pass:
\* every Record before it has a reference the two readers' loops frame
FramedBefore(i) ==
    \A j \in 1..(i - 1) :
        IsStr(experiments[j].reference) /\ ~HasEndLine(experiments[j].reference.s)

\* C22: a metadata field whose line carries no value, as the writer emits it
\* for a None field, is the empty string '' in the Record
\* read_experiments_from_txt returns, for the string fields (reaction,
\* quantity, frame, X4_ID, X4_code, author) and for the numeric ones
\* (Ratio_isomer, MF, MT, year, data_points).
NullFieldReadsEmpty ==
    \A i \in 1..Len(loaded) :
        (i <= Len(experiments) /\ FramedBefore(i)) =>
            \A f \in WrittenFields \ {"title"} :
                IsNone(experiments[i][f]) => loaded[i][f] = PyStr("")

-----------------------------------------------------------------------------
(* Properties of Experiment.to_dataframe *)

\* the 17 columns of the claim and the field each one repeats
MetadataColumns ==
    <<"Experiment", "Target Z", "Target A", "Target state", "Reaction",
      "Incident energy", "Final Z", "Final A", "Final state", "MT ratio",
      "Ratio isomer", "Quantity", "Frame", "MF", "MT", "Author", "Year">>

MetadataFields ==
    <<"title", "target_Z", "target_A", "target_state", "reaction", "E_inc",
      "final_Z", "final_A", "final_state", "MTrat", "Ratio_isomer", "quantity",
      "frame", "MF", "MT", "author", "year">>

\* the step is a call of to_dataframe
ToDataframeStep == pc' = "to_dataframe" /\ calls' = calls + 1

\* the position of the name c in the sequence of names q, 0 if it is not there
Position(q, c) ==
    IF \E j \in 1..Len(q) : q[j] = c
    THEN CHOOSE j \in 1..Len(q) : q[j] = c /\ \A k \in 1..(j - 1) : q[k] # c
    ELSE 0

\* the call returns a table of as many rows as the Record's and leaves the
\* Record as it was
RowsAndRecordKept ==
    /\ status' = "returned"
    /\ experiment' = experiment
    /\ Len(table'.rows) = Len(experiment.data.rows)

-----------------------------------------------------------------------------
(* Properties of classify_experiments *)

\* the values of the field over the collection
FieldValues == {experiments[i][attribute] : i \in 1..Len(experiments)}

RECURSIVE FlattenedRows(_, _)
\* the rows of to_dataframe of the Records, from the i-th on, whose field
\* equals the key, in the order of the collection
FlattenedRows(key, i) ==
    IF i > Len(experiments) THEN <<>>
    ELSE (IF PyEq(experiments[i][attribute], key)
          THEN to_dataframe(experiments[i]).rows ELSE <<>>)
         \o FlattenedRows(key, i + 1)

RECURSIVE RowTotal(_, _)
\* the number of rows of the first n tables of the sequence
RowTotal(tables, n) ==
    IF n = 0 THEN 0 ELSE Len(tables[n].rows) + RowTotal(tables, n - 1)

\* the call stopped at to_csv alone, for want of the directory of the files
DirectoryMissing ==
    /\ status = "raised"
    /\ classify_experiments(experiments, attribute, TRUE).raised = ""

\* the tables of dfs are the classes of the collection
Partitioned ==
    /\ status = "returned"
    /\ ret = "dict"
    /\ Len(dfs) = Cardinality(FieldValues)
    /\ \A v \in FieldValues : \E k \in 1..Len(dfs) : dfs[k].key = v
    /\ \A k \in 1..Len(dfs) :
          /\ dfs[k].key \in FieldValues
          /\ dfs[k].df.rows = FlattenedRows(dfs[k].key, 1)
    /\ RowTotal([k \in 1..Len(dfs) |-> dfs[k].df], Len(dfs))
          = RowTotal([i \in 1..Len(experiments) |-> experiments[i].data],
                     Len(experiments))

\* C24: classification.  classify_experiments(experiments, field) returns
\* one table per unique value of the field; the flattened rows of each Record
\* are, in the order of the collection, in the table keyed by the Record's
\* own value of the field and in no other; the tables together have as many
\* rows as the Records' tables together; no Record is modified.  (The call
\* may stop at the writing of the csv files when their directory is missing.)
ClassificationPartition ==
    [][/\ (pc = "classify_experiments" /\ IsField(attribute) /\ experiments # <<>>)
             => (Partitioned \/ DirectoryMissing)
       /\ pc' = "classify_experiments" => experiments' = experiments]_vars

\* the loop is at a line
AtLine == pc = "read_experiment" /\ idx <= Len(lines)

\* q[1:], the tokens of a line after the first
AfterFirst(q) == SubSeq(q, 2, Len(q))

\* C25: a matched 'Data points' line arms header mode for exactly one line:
\* the very next line, whatever it holds, is consumed as the header and is
\* not matched as metadata, data or reference; its whitespace-separated
\* tokens after the first become the column names in order; from the line
\* after it the loop is again in the data/metadata dispatch, and header mode
\* is never active for two lines in a row.
HeaderOneShot ==
    [][/\ (AtLine /\ ~read_header /\ ~read_ref /\ status' = "running"
                  /\ StartsWith(lines[idx], "# Data points")) => read_header'
       /\ (AtLine /\ read_header') =>
             /\ ~read_header /\ ~read_ref
             /\ StartsWith(lines[idx], "# Data points")
       /\ (AtLine /\ read_header) =>
             /\ branch' = Append(branch, "header")
             /\ header' = AfterFirst(Split(lines[idx]))
             /\ experiment' = experiment
             /\ read_ref' = read_ref /\ temp_line' = temp_line
             /\ \A j \in 1..Len(data_list') : data_list'[j] = <<>>
             /\ ~read_header'
             /\ status' = "running"
       /\ status' = "returned" => experiment'.data.columns = header]_vars

\* a line of the field Target Z has been consumed as the header: the field
\* is still None and the tokens of the line are the column names
HeaderOneShotWitness ==
    /\ status = "running"
    /\ branch = <<"meta", "header">>
    /\ StartsWith(lines[2], "# Target Z: 12")
    /\ experiment.target_Z = None
    /\ header = <<"Target", "Z:", "12">>
    /\ ~read_header

\* the step appends a value to one of the lists of the table
AddsRow ==
    /\ Len(data_list') = Len(data_list)
    /\ \E j \in 1..Len(data_list) : Len(data_list'[j]) > Len(data_list[j])

\* what the branch i of the dispatch does with the line l: a field holds a
\* value after it exactly when the line has one, the 'Data points' line
\* arms header mode as well, the 'Reference' line opens reference mode
BranchTaken(i, l) ==
    IF i = 21 THEN read_ref' /\ experiment' = experiment
    ELSE /\ (experiment'[Dispatch[i].field] = None) <=> (AfterColon(l) = "")
         /\ read_header' = (i = 20)
         /\ ~read_ref'

\* C26: no line beginning with '#' ever adds a row to the table; every line
\* beginning with '#' that arrives outside an open reference block and
\* outside the header line is matched against the metadata prefixes, also
\* after data rows have been read; a line adds a row only if it does not
\* begin with '#' and the loop is in neither header nor reference mode.
HashLinesAreMetadata ==
    [][/\ AddsRow =>
             /\ ~StartsWith(lines[idx], "#")
             /\ ~read_header /\ ~read_ref
       /\ (AtLine /\ StartsWith(lines[idx], "#") /\ ~read_ref /\ ~read_header
                  /\ status' = "running") =>
             /\ branch' = Append(branch, "meta")
             /\ data_list' = data_list /\ header' = header
             /\ (\E i \in 1..21 : StartsWith(lines[idx], Dispatch[i].prefix)) =>
                   \E i \in 1..21 :
                       /\ StartsWith(lines[idx], Dispatch[i].prefix)
                       /\ BranchTaken(i, lines[idx])]_vars

\* a metadata line that follows a data row has set its field, and the row
\* is still the only one
HashLinesAreMetadataWitness ==
    /\ status = "running"
    /\ Last >= 4
    /\ branch[Last] = "meta" /\ branch[Last - 1] = "data"
    /\ FieldOf(lines[Last]) \in Fields
    /\ experiment[FieldOf(lines[Last])] # None
    /\ Len(data_list) = 4 /\ Len(data_list[1]) = 1

\* the step leaves every metadata field and the table as they were
FieldsAndTableKept ==
    /\ \A f \in Fields \cup {"title", "data"} : experiment'[f] = experiment[f]
    /\ data_list' = data_list /\ header' = header /\ bound' = bound
    /\ read_header' = read_header

\* C27: a 'Reference' marker line stores no value and opens reference mode
\* from the next line; while the mode is open no line changes a metadata
\* field or the table, even one that begins with a metadata prefix or looks
\* like a data line; the only line that closes the mode is the bare marker
\* '#' followed by the newline, after which the accumulator is empty and
\* '#' lines are matched as metadata again.
ReferenceModeFrame ==
    [][/\ (AtLine /\ ~read_ref /\ ~read_header /\ StartsWith(lines[idx], "# Reference")) =>
             /\ read_ref'
             /\ experiment' = experiment /\ temp_line' = temp_line
             /\ FieldsAndTableKept
       /\ (AtLine /\ read_ref) =>
             /\ ~read_header
             /\ branch' = Append(branch, "ref")
             /\ FieldsAndTableKept
             /\ status' = "running"
             /\ IF lines[idx] = "#\n"
                THEN ~read_ref' /\ temp_line' = ""
                ELSE read_ref' /\ experiment' = experiment
       /\ (AtLine /\ ~read_ref /\ ~read_header /\ Last >= 1 /\ branch[Last] = "ref"
                  /\ StartsWith(lines[idx], "#") /\ status' = "running") =>
             branch' = Append(branch, "meta")]_vars

\* a block whose body held a line of the field MT has been closed and the
\* line after the terminator has set its field; MT is still None
ReferenceModeFrameWitness ==
    /\ status = "running"
    /\ Last >= 4
    /\ branch[Last] = "meta" /\ experiment.target_Z = PyInt(12)
    /\ branch[Last - 1] = "ref" /\ lines[Last - 1] = "#\n"
    /\ \E k \in 2..(Last - 2) : branch[k] = "ref" /\ StartsWith(lines[k], "# MT")
    /\ experiment.MT = None
    /\ temp_line = ""

\* the text of the body lines of the reference block that is open: the lines
\* read since the marker, each without its first character
OpenBody == BodyText(BlockStart(Last) + 1, Last)

\* the rule of the commit: the text without its last two characters
Trimmed(t) == SubSeq(t, 1, Len(t) - 2)

\* a 'Reference' marker line is among the first n lines read
MarkerRead(n) ==
    \E k \in 1..n : branch[k] = "meta" /\ StartsWith(lines[k], "# Reference")

\* C28: when the input ends while reference mode is open, the reference is
\* committed with the same rule as at a terminator line: for the same body
\* lines, the reference obtained at the end of the input equals the one
\* obtained when the terminator line follows the body; when no 'Reference'
\* line was ever read the reference stays None.
ReferenceCommitAtEnd ==
    [][/\ (AtLine /\ read_ref /\ lines[idx] = "#\n") =>
             experiment'.reference = PyStr(Trimmed(OpenBody))
       /\ (pc = "read_experiment" /\ idx > Len(lines) /\ read_ref) =>
             experiment'.reference = PyStr(Trimmed(OpenBody))
       /\ (pc = "read_experiment" /\ ~MarkerRead(Last) /\ ~read_ref') =>
             experiment'.reference = None]_vars

\* a Record has been returned for a file that ends inside a reference block
\* of two body lines
ReferenceCommitAtEndWitness ==
    /\ status = "returned"
    /\ read_ref
    /\ Last = Len(lines)
    /\ branch[Last] = "ref" /\ branch[Last - 1] = "ref" /\ branch[Last - 2] = "meta"
    /\ experiment.reference = PyStr(Trimmed(OpenBody))
    /\ Len(experiment.reference.s) > 2

\* the fields of a Record that the step changes
Changed == {f \in DOMAIN experiment : experiment'[f] # experiment[f]}

\* the prefix of the branch i is the first, in the order of the source, that
\* the line begins with
FirstPrefix(l, i) ==
    /\ StartsWith(l, Dispatch[i].prefix)
    /\ \A j \in 1..(i - 1) : ~StartsWith(l, Dispatch[j].prefix)

\* C29: prefix dispatch.  A metadata line sets at most one field, the first
\* whose prefix matches in the fixed order, and no shorter prefix shadows a
\* longer name: a line starting '# MTrat' sets MTrat and never MT, '# Target
\* state' and '# Final state' never set the Z or A fields, and a line
\* starting '# Reaction' sets the reaction only when the prefix with its
\* padding and colon ('# Reaction    :') matches and otherwise no field.
PrefixDispatch ==
    [][(AtLine /\ StartsWith(lines[idx], "#") /\ ~read_ref /\ ~read_header
               /\ status' = "running") =>
          LET l == lines[idx]
          IN  /\ Cardinality(Changed) <= 1
              /\ \A i \in 1..20 :
                    FirstPrefix(l, i) =>
                        /\ Changed \subseteq {Dispatch[i].field}
                        /\ AfterColon(l) # "" => experiment'[Dispatch[i].field] # None
              /\ (\A i \in 1..20 : ~StartsWith(l, Dispatch[i].prefix)) => Changed = {}
              /\ StartsWith(l, "# MTrat") =>
                    /\ experiment'.MT = experiment.MT
                    /\ AfterColon(l) # "" => experiment'.MTrat # None
              /\ StartsWith(l, "# Target state") =>
                    /\ experiment'.target_Z = experiment.target_Z
                    /\ experiment'.target_A = experiment.target_A
              /\ StartsWith(l, "# Final state") =>
                    /\ experiment'.final_Z = experiment.final_Z
                    /\ experiment'.final_A = experiment.final_A
              /\ StartsWith(l, "# Reaction") =>
                    IF StartsWith(l, "# Reaction    :")
                    THEN Changed \subseteq {"reaction"}
                    ELSE Changed = {}]_vars

\* a line of MTrat has set MTrat and left MT None
PrefixDispatchWitness ==
    /\ status = "running"
    /\ Last >= 1
    /\ branch[Last] = "meta"
    /\ StartsWith(lines[Last], "# MTrat: 12")
    /\ experiment.MTrat = PyFloat(12, 0)
    /\ experiment.MT = None

-----------------------------------------------------------------------------
(* Properties of Experiment.add_numeric_attributes on the Records that
   read_experiment returns *)

\* the table after add_numeric_attributes on the Record read, and whether
\* the call raised
Coerced == AddNumeric(experiment, experiment.data, 1)

\* every row of the frame holds v in the column c
ColumnHolds(frame, c, v) ==
    /\ ColumnIndex(frame, c) # 0
    /\ \A i \in 1..Len(frame.rows) : frame.rows[i][ColumnIndex(frame, c)] = v

\* int() of a value that is a number or the text of an integer
IntegerConversion(v) ==
    IF IsStr(v) THEN IntOf(v.s) ELSE PyInt(v.m \div Pow10(v.e))

\* C30: numeric coercion.  For every Record that read_experiment returns,
\* add_numeric_attributes completes without error and leaves, in every row,
\* the MTrat, final_A and final_Z columns equal to the integer conversion of
\* the field when it is not None and None when it is, and the MF, MT,
\* Ratio_isomer, target_A and target_Z columns equal to the stored value.
NumericCoercion ==
    (pc = "done" /\ status = "returned") =>
        /\ ~Coerced.raised
        /\ \A attr \in {"MTrat", "final_A", "final_Z"} :
              ColumnHolds(Coerced.data, attr,
                          IF IsNone(experiment[attr]) THEN None
                          ELSE IntegerConversion(experiment[attr]))
        /\ \A attr \in {"MF", "MT", "Ratio_isomer", "target_A", "target_Z"} :
              ColumnHolds(Coerced.data, attr, experiment[attr])

-----------------------------------------------------------------------------
(* Properties of Experiment.prepare_data *)

\* the names of the columns that prepare_data adds
PreparedNames ==
    {NumericAttributes[j] : j \in 1..Len(NumericAttributes)}
    \cup {IndicatorColumns[j] : j \in 1..Len(IndicatorColumns)} \cup {"X4_ID"}

\* the table holds the data columns alone: none of the columns that
\* prepare_data adds is there yet
DataColumnsOnly(frame) ==
    \A j \in 1..Len(frame.columns) : frame.columns[j] \notin PreparedNames

\* a call of prepare_data that returns
PrepareDataReturns == pc' = "prepare_data" /\ calls' = calls + 1 /\ status' = "returned"

\* C31: prepare_data applies add_numeric_attributes, then
\* encode_categorical_attributes, then sets the X4_ID column.  Called on a
\* Record whose table holds its data columns, it returns a table with the
\* data columns first, then the 9 numeric-attribute columns, then the
\* indicator columns, then X4_ID last; the X4_ID column holds in every row
\* the X4 identifier as a string; the cells of the data columns are kept; and
\* the table returned is the table of the Record.
PrepareDataOrder ==
    [][(PrepareDataReturns /\ DataColumnsOnly(experiment.data)) =>
          LET n == Len(experiment.data.columns)
              w == n + Len(NumericAttributes) + Len(IndicatorColumns) + 1
          IN  /\ table'.columns = experiment.data.columns \o NumericAttributes
                                     \o IndicatorColumns \o <<"X4_ID">>
              /\ Len(table'.rows) = Len(experiment.data.rows)
              /\ \A i \in 1..Len(experiment.data.rows) :
                    /\ Len(table'.rows[i]) = w
                    /\ SubSeq(table'.rows[i], 1, n) = experiment.data.rows[i]
                    /\ table'.rows[i][w] = PyStr(StrOf(experiment.X4_ID))
              /\ experiment'.data = table'
              /\ ret' = "DataFrame"]_vars

\* prepare_data has returned, on a Record as first built with a table of two
\* rows, a table whose last column holds the X4 identifier
PrepareDataOrderWitness ==
    /\ pc = "prepare_data"
    /\ status = "returned"
    /\ calls = 1
    /\ Len(table.rows) = 2
    /\ Len(table.columns) = 4 + 9 + Len(IndicatorColumns) + 1
    /\ table.columns[5] = "E_inc"
    /\ table.columns[14] = "projectile_p"
    /\ table.columns[Len(table.columns)] = "X4_ID"
    /\ table.rows[2][Len(table.columns)] = PyStr("O0123")
    /\ experiment.data = table

\* a call of one of the three methods that add columns, returning or raising
AddingCall ==
    /\ pc' \in {"add_numeric_attributes", "encode_categorical_attributes", "prepare_data"}
    /\ calls' = calls + 1

\* the scalar fields of the Record are those before the step
ScalarsKept == \A f \in DOMAIN experiment \ {"data"} : experiment'[f] = experiment[f]

\* the number of data columns of the table before the step
DataWidth == IF Len(experiment.data.columns) < 4 THEN Len(experiment.data.columns) ELSE 4

\* C32: add_numeric_attributes, encode_categorical_attributes and
\* prepare_data only add columns: every call, in any sequence of calls,
\* leaves every scalar field of the Record, the number of rows of its table
\* and the names and cells of its first 4 columns, the data columns, as they
\* were.
OnlyAddColumns ==
    [][AddingCall =>
          /\ ScalarsKept
          /\ Len(experiment'.data.rows) = Len(experiment.data.rows)
          /\ \A j \in 1..DataWidth :
                /\ experiment'.data.columns[j] = experiment.data.columns[j]
                /\ \A i \in 1..Len(experiment.data.rows) :
                      experiment'.data.rows[i][j] = experiment.data.rows[i][j]]_vars

-----------------------------------------------------------------------------
(* Properties of write_experiments_to_txt: the line of the reference marker *)

\* the marker line of the reference block as the writer emits it
WrittenMarker == "# Reference   : \n"

\* the marker line stands at position i of the text d
MarkerAt(d, i) ==
    /\ i + Len(WrittenMarker) - 1 <= Len(d)
    /\ SubSeq(d, i, i + Len(WrittenMarker) - 1) = WrittenMarker

\* C33: for every Record, whether its reference is None or not,
\* write_experiments_to_txt emits the 'Reference' marker as a line of its
\* own: in the text of each Record it begins at the start of a line after
\* the last table row, is followed by the reference text when there is one,
\* and the '# END' line of the Record follows on a line of its own.
MarkerOwnLine ==
    [][(pc = "write_experiments_to_txt" /\ wi' = wi + 1) =>
          LET d == From(txt', Len(txt) + 1)
              x == experiments[wi]
              tb == to_string(x.data)
          IN  /\ \A i \in 1..Len(d) : MarkerAt(d, i) => i > 1 /\ Ch(d, i - 1) = "\n"
              /\ \E i \in 1..Len(d) :
                    /\ MarkerAt(d, i)
                    /\ i > Len(tb) + 1
                    /\ SubSeq(d, i - 1 - Len(tb), i - 2) = tb
                    /\ From(d, i + Len(WrittenMarker)) =
                          WrittenReference(x)
                          \o (IF IsNone(x.reference) THEN "" ELSE "\n") \o "# END\n"]_vars

-----------------------------------------------------------------------------
(* Properties of read_proton_experiments_from_exfortables *)

\* read_experiment has failed on a file of the walk
ReadFailed == pc = "done" /\ status = "raised" /\ fi > 0

\* C34: in read_proton_experiments_from_exfortables the files are read one
\* after another, each opened once the Records of all the files before it
\* are in the list; when read_experiment fails on a file the error reaches
\* the caller at that point: no later file is opened and no step follows,
\* the Records parsed before the failure are as they were, and the caller
\* receives the error and no list.
FailurePropagates ==
    [][/\ (pc' = "read_experiment" /\ pc # "read_experiment") =>
             /\ fi' = Len(experiments) + 1
             /\ filename' = files[fi'].name
             /\ lines' = files[fi'].text
             /\ handle = "closed"
       /\ Len(experiments') >= Len(experiments)
       /\ SubSeq(experiments', 1, Len(experiments)) = experiments
       /\ ~ReadFailed
       /\ (status' = "raised") =>
             /\ ret' = ""
             /\ experiments' = experiments
             /\ Len(experiments') = fi' - 1
             /\ handle' = "closed"
       /\ (pc' = "caller") =>
             /\ status' = "returned"
             /\ Len(experiments') = Len(files)
             /\ \A k \in 1..Len(files) :
                   experiments'[k].title = PyStr(Basename(files[k].name))]_vars

\* the second file of a walk has failed after the Record of the first was
\* put in the list, and a third file is left unread
FailurePropagatesWitness ==
    /\ ReadFailed
    /\ fi = 2
    /\ Len(files) = 3
    /\ Len(experiments) = 1
    /\ experiments[1].target_Z = PyInt(12)
    /\ ret = ""

\* the branch of the loop body the tests of lines 109, 190 and 195 lead the
\* line l to
BranchOf(l) ==
    IF StartsWith(l, "#") /\ ~read_ref /\ ~read_header THEN "meta"
    ELSE IF read_header THEN "header"
    ELSE IF read_ref THEN "ref"
    ELSE "data"

\* C35: at every point of a read_experiment pass the header flag and the
\* reference flag are never both true, and each line read without error is
\* handled by exactly one of the four branches (metadata, header,
\* reference, data): the one its first character and the flags select.
FlagsExclusive ==
    [][/\ ~(read_header /\ read_ref)
       /\ ~(read_header' /\ read_ref')
       /\ (AtLine /\ status' = "running") =>
             /\ idx' = idx + 1
             /\ branch' = Append(branch, BranchOf(lines[idx]))
             /\ BranchOf(lines[idx]) = "header" <=> read_header
             /\ BranchOf(lines[idx]) = "ref" <=> read_ref]_vars

\* a file has been read in which each of the two flags was raised in turn:
\* a header line and a line of a reference block have been handled
FlagsExclusiveWitness ==
    /\ pc = "done"
    /\ status = "returned"
    /\ \E i \in 1..Len(branch) : branch[i] = "header"
    /\ \E i \in 1..Len(branch) : branch[i] = "ref" /\ StartsWith(lines[i], "# MT")
    /\ experiment.MT = None

\* the number of data lines among the first k lines of the file
DataLinesUpTo(k) == Cardinality({j \in 1..k : branch[j] = "data"})

\* the value of the token c of the data line l, NaN when the line has no
\* such token
ValueOf(l, c) ==
    IF c <= Len(Split(l)) /\ FloatOk(Split(l)[c]) THEN FloatOf(Split(l)[c]) ELSE NaN

\* C36: after every data line processed without error the 4 accumulated
\* column lists have the same length, one entry each per data line read, so
\* the values of the k-th data line of the file are in row k of every column
\* of the final table, for data lines of any number of tokens (2, 3, 4 or
\* more).
RowsAligned ==
    /\ (pc = "read_experiment" /\ status = "running" /\ bound /\ Len(data_list) >= 4) =>
          \A c \in 1..4 : Len(data_list[c]) = DataLinesUpTo(Last)
    /\ (status = "returned" /\ Len(experiment.data.columns) >= 4) =>
          /\ Len(experiment.data.rows) = DataLinesUpTo(Last)
          /\ \A k \in 1..Last : branch[k] = "data" =>
                \A c \in 1..4 :
                   experiment.data.rows[DataLinesUpTo(k)][c] = ValueOf(lines[k], c)

-----------------------------------------------------------------------------
(* Properties of read_experiments_from_txt: termination *)

\* C37: read_experiments_from_txt terminates, by returning a list or by
\* raising, on every finite input file: an empty file, a file cut short
\* inside a table or inside a reference block, and a file that lacks the
\* '# END OF FILE' line included.  A loop that never ends is the status
\* "hangs".
ReaderTerminates ==
    /\ status # "hangs"
    /\ pc = "done" => status \in {"returned", "raised"}

-----------------------------------------------------------------------------
(* Properties of Experiment.encode_categorical_attributes: one indicator
   per field *)

\* the names of the indicator columns of the k-th categorical field
IndicatorsOf(k) ==
    {categorical_attributes[k].possible_values[j] :
        j \in 1..Len(categorical_attributes[k].possible_values)}

\* the columns of the row i of the frame that are indicators of the k-th
\* field and hold 1
OnesOf(frame, i, k) ==
    {j \in 1..Len(frame.columns) :
        frame.columns[j] \in IndicatorsOf(k) /\ frame.rows[i][j] = PyInt(1)}

\* C38: after encode_categorical_attributes, for each categorical field at
\* most one of the indicator columns of that field is 1, in every row,
\* whatever the value of the field.
AtMostOneIndicator ==
    [][(pc' = "encode_categorical_attributes" /\ calls' = calls + 1) =>
          \A k \in 1..Len(categorical_attributes) :
             \A i \in 1..Len(experiment'.data.rows) :
                Cardinality(OnesOf(experiment'.data, i, k)) <= 1]_vars

-----------------------------------------------------------------------------
(* Properties of Experiment.prepare_data: repeated calls *)

\* each column name of the frame occurs once
NamesOnce(frame) ==
    \A j, k \in 1..Len(frame.columns) : frame.columns[j] = frame.columns[k] => j = k

\* C39: prepare_data is idempotent: a second call on the same Record returns
\* a table with the same column names, each occurring once, and the same
\* values as the table the first call returned.
PrepareDataIdempotent ==
    [][(pc = "prepare_data" /\ status = "returned"
           /\ pc' = "prepare_data" /\ calls' = calls + 1) =>
          /\ status' = "returned"
          /\ NamesOnce(table)
          /\ table'.columns = table.columns
          /\ table'.rows = table.rows]_vars

====
